---------------------------- MODULE Spec2Model ----------------------------
(* ChronoProfiler: per-thread zone recording and per-frame merge           *)
(* (src/src/ChronoProfiler.cpp, src/include/ChronoProfiler.hpp).           *)
(*                                                                         *)
(* Time is modelled in integer ticks of a clock that never goes backwards. *)
(* Every API call is one atomic action (the sequential semantics of the    *)
(* handlers).  Variables named obs* are history variables: they record     *)
(* which calls were made, and are never read by the modelled code.         *)
(*                                                                         *)
(* Two more components read the same clock or the profiler's result:       *)
(* ChronoBlade (src/src/ChronoBlade.cpp), a table of named sections, and   *)
(* ProfilerUI (src/app/ProfilerUI.cpp), a rolling history of merged frames.*)
EXTENDS Integers, Sequences, FiniteSets, TLC

\* ------------------------------------------------------------------ bounds
\* Zone calls, of all threads together, followed within one frame (SpecFrame).
MaxCalls == 4
\* Per-thread capacity used by the model in place of the program's 1024.
MaxLog == 2
\* Last tick of the clock.
MaxTime == 2
\* Events the profiler holds at one time (thread logs plus merged frame).
MaxLive == 2
\* How far below zero repeated pushEventEnd calls may move a startMs.
MaxDrift == 1
\* Calls counted for one ChronoBlade section.
MaxBladeCalls == 2
\* Largest history size a ProfilerUI is constructed with (60 by default).
MaxHistory == 2
\* ProfilerUI::update calls followed (SpecUI).
MaxUpdates == 3
MaxFrames == 11
MaxPushes == 2
MaxOps == 5

\* kMaxEventsPerThread (1024 in the program), scaled down to the bound MaxLog.
kMaxEventsPerThread == MaxLog

\* The threads that use the profiler.
Threads == {1, 2}
\* The thread that drives the frame lifecycle (the render loop's thread).
Orchestrator == CHOOSE t \in Threads : \A u \in Threads : t <= u

\* The truncation of static_cast<uint32_t>, scaled from 2^32 to 2^8 (the
\* model checker's integers are 32 bits wide).
IdModulus == 2^8
\* std::hash<std::thread::id>: a value wider than the id, one per thread. The
\* values are arbitrary; their low words are taken to be distinct for
\* distinct threads.
ThreadHash(t) == t * IdModulus + 40 + t
\* static_cast<uint32_t>(std::hash<std::thread::id>{}(get_id()))
ThreadId(t) == ThreadHash(t) % IdModulus
\* The id of a thread that never calls the profiler.
ForeignId == ThreadId(Cardinality(Threads) + 1)
QueryIds == {ThreadId(t) : t \in Threads} \cup {ForeignId}

Unnamed == "<unnamed>"
ThreadNameSet == {"Worker", "Main"}
DefaultColor == "0x64C8FFFF"
\* The (name, color, category) each thread passes to pushEventStart: one
\* thread records "physics" zones with the default color and category, the
\* other "render" zones with a color and a category of its own.
ZoneOf(t) ==
    IF t = Orchestrator
      THEN [name |-> "physics", color |-> DefaultColor, category |-> ""]
      ELSE [name |-> "render", color |-> "0xFF0000FF", category |-> "gpu"]

VARIABLES
    now,              \* the clock read by nowMs() and high_resolution_clock::now()
    frameStart,       \* ChronoProfiler::frameStart
    threadEvents,     \* thread_local threadEvents, one log per thread
    registered,       \* static thread_local bool registered (pushEventStart)
    allThreadBuffers, \* registry of thread-local buffers, in registration order
    frameEvents,      \* merged events
    threadNames,      \* thread id -> name
    totalEventCount,  \* atomic counter
    lastCall,         \* history: the most recent API call and what it returned
    obsNamed,         \* history: per thread, the name it last set ("" for none)
    obsPhase,         \* history: Idle / Accumulating / Merged
    obsStale,         \* history: per thread, how many events of its log were
                      \*          recorded before the latest beginFrame
    obsFrameStale,    \* history: how many merged events were recorded before
                      \*          the latest beginFrame
    obsTrace,         \* history: per thread, the zone calls made in the open frame
    times,            \* ChronoBlade::times, section -> start time
    results,          \* ChronoBlade::results, section -> (accumulated ms, calls)
    obsBlade,         \* history: per section, the starts since its last end
    obsBladeCall,     \* history: the most recent ChronoBlade call
    maxHistory,       \* ProfilerUI::maxHistory
    frameHistory,     \* ProfilerUI::frameHistory
    aggregatedStats,  \* ProfilerUI::aggregatedStats, zone name -> ZoneStats
    totalFrames,      \* ProfilerUI::totalFrames
    obsCaptured,      \* history: every frame update() read, in call order
    loopPc,           \* mainLoop: the statement the render loop is at
    frameCounter,     \* mainLoop: int frameCounter
    doProfile,        \* mainLoop: bool doProfile of the current iteration
    drawThrew,        \* mainLoop: whether drawFrame left by an exception
    obsLoop,          \* history: the calls of the current loop iteration
    pc,               \* per thread, the statement of the call it is in
    mergeMutex,       \* ChronoProfiler::mergeMutex: the set of its holders
    threadNamesMutex, \* ChronoProfiler::threadNamesMutex, likewise
    uiMutex,          \* ProfilerUI::uiMutex, likewise
    cursor,           \* per thread, the position of the loop it is in
    fault,            \* the kinds of undefined behaviour that went wrong
    obsPushed,        \* history: per thread, the events its calls appended
    obsCleared,       \* history: per thread, its merged events beginFrame cleared
    obsStarted        \* history: how many calls have been started

vars == << now, frameStart, threadEvents, registered, allThreadBuffers,
           frameEvents, threadNames, totalEventCount, lastCall,
           obsNamed, obsPhase, obsStale, obsFrameStale, obsTrace,
           times, results, obsBlade, obsBladeCall,
           maxHistory, frameHistory, aggregatedStats, totalFrames, obsCaptured,
           loopPc, frameCounter, doProfile, drawThrew, obsLoop,
           pc, mergeMutex, threadNamesMutex, uiMutex, cursor, fault,
           obsPushed, obsCleared, obsStarted >>

\* The variables of the program, and the history variables.
progVars == << now, frameStart, threadEvents, registered, allThreadBuffers,
               frameEvents, threadNames, totalEventCount >>
obsVars == << lastCall, obsNamed, obsPhase, obsStale, obsFrameStale, obsTrace >>
\* The variables of ChronoBlade and of ProfilerUI, with their history.
bladeVars == << times, results, obsBlade, obsBladeCall >>
uiVars == << maxHistory, frameHistory, aggregatedStats, totalFrames, obsCaptured >>
\* The variables of the render loop, with their history.
loopVars == << loopPc, frameCounter, doProfile, drawThrew, obsLoop >>
\* The variables of the callers of the profiler.
\* The variables of calls that are interleaved statement by statement.
concVars == << pc, mergeMutex, threadNamesMutex, uiMutex, cursor, fault,
              obsPushed, obsCleared, obsStarted >>
extVars == << loopVars, concVars >>

\* ------------------------------------------------------------ pure helpers
\* An event that is born finalized, with a duration of zero.
NewEventFinalized(args, tid, t) ==
    [ name |-> args.name, startMs |-> t, durationMs |-> 0,
      threadId |-> tid, color |-> args.color, category |-> args.category ]

\* struct Event, as filled in by pushEventStart.
NewEvent(args, tid, t) ==
    [ name |-> args.name, startMs |-> t, durationMs |-> -1,
      threadId |-> tid, color |-> args.color, category |-> args.category ]

\* A pushEventStart that puts the new event at the front of the log.
pushEventStartLogInFront(log, args, tid, t) ==
    IF Len(log) >= kMaxEventsPerThread
      THEN log
      ELSE << NewEvent(args, tid, t) >> \o log

\* A capacity test that lets the log grow one event past the capacity.
pushEventStartLogPastCapacity(log, args, tid, t) ==
    IF Len(log) > kMaxEventsPerThread
      THEN log
      ELSE Append(log, NewEvent(args, tid, t))

\* The capacity test and push_back of pushEventStart, on one log.
pushEventStartLog(log, args, tid, t) ==
    IF Len(log) >= kMaxEventsPerThread
      THEN log
      ELSE Append(log, NewEvent(args, tid, t))

\* Whether pushEventStart appends (and so increments totalEventCount).
pushEventStartAppends(log) == ~(Len(log) >= kMaxEventsPerThread)

\* A pushEventEnd that removes the zone it closes from the log.
pushEventEndLogPop(log, t, fs) ==
    IF log = << >> THEN log ELSE SubSeq(log, 1, Len(log) - 1)

\* A pushEventEnd that leaves startMs as the absolute clock reading.
pushEventEndLogAbsolute(log, t, fs) ==
    IF log = << >>
      THEN log
      ELSE [log EXCEPT ![Len(log)].durationMs = t - log[Len(log)].startMs]

\* pushEventEnd on one log: threadEvents.back() gets its duration from the
\* clock and its startMs reduced by the frame start.
pushEventEndLog(log, t, fs) ==
    IF log = << >>
      THEN log
      ELSE LET evt == log[Len(log)]
           IN  [log EXCEPT ![Len(log)] =
                   [evt EXCEPT !.durationMs = t - evt.startMs,
                               !.startMs = evt.startMs - fs]]

\* A registration that runs on every pushEventStart.
registerBufferEveryCall(buffers, isRegistered, t) == Append(buffers, t)

\* The registration lambda of pushEventStart, run once per thread.
registerBuffer(buffers, isRegistered, t) ==
    IF isRegistered THEN buffers ELSE Append(buffers, t)

\* A merge that puts each later buffer of the registry in front of the
\* events merged before it.
RECURSIVE mergeBuffersInFront(_, _, _)
mergeBuffersInFront(merged, buffers, logs) ==
    IF buffers = << >>
      THEN merged
      ELSE mergeBuffersInFront(logs[Head(buffers)] \o merged, Tail(buffers), logs)

\* The loop of endFrame: the logs of the registry, in registry order,
\* appended to the merged events.
RECURSIVE mergeBuffers(_, _, _)
mergeBuffers(merged, buffers, logs) ==
    IF buffers = << >>
      THEN merged
      ELSE mergeBuffers(merged \o logs[Head(buffers)], Tail(buffers), logs)

\* buffer->clear() for every buffer of the registry.
clearBuffers(buffers, logs) ==
    [t \in DOMAIN logs |->
        IF \E i \in 1..Len(buffers) : buffers[i] = t THEN << >> ELSE logs[t]]

\* A beginFrame that keeps the merged events of the frame before.
beginFrameEventsKept(merged) == merged

\* frameEvents.clear() of beginFrame.
beginFrameEvents(merged) == << >>

\* A setThreadName that keeps the first name of an id (emplace).
setThreadNameMapFirst(names, id, name) ==
    [i \in (DOMAIN names) \cup {id} |-> IF i \in DOMAIN names THEN names[i] ELSE name]

\* threadNames[id] = name
setThreadNameMap(names, id, name) ==
    [i \in (DOMAIN names) \cup {id} |-> IF i = id THEN name ELSE names[i]]

\* getThreadName: the stored name, or "<unnamed>".
getThreadName(id) ==
    IF id \in DOMAIN threadNames THEN threadNames[id] ELSE Unnamed

\* getEvents returns a reference to frameEvents.
getEvents == frameEvents

\* ---- JSON export
\* nlohmann::json j; is the JSON value null until the first push_back, which
\* turns it into an array.
JsonNull == [kind |-> "null", items |-> << >>]

jsonRecord(evt) ==
    [ name |-> evt.name, startMs |-> evt.startMs, durationMs |-> evt.durationMs,
      threadId |-> evt.threadId, threadName |-> getThreadName(evt.threadId),
      color |-> evt.color, category |-> evt.category ]

jsonPushBack(j, rec) == [kind |-> "array", items |-> Append(j.items, rec)]

\* The loop of exportToJSON over frameEvents.
RECURSIVE exportJson(_, _)
exportJson(j, events) ==
    IF events = << >>
      THEN j
      ELSE exportJson(jsonPushBack(j, jsonRecord(Head(events))), Tail(events))

\* What exportToJSON writes: the document when the stream opened, nothing
\* when it did not.
NoFile == [kind |-> "none", items |-> << >>]
exportWrite(isOpen, j) == IF isOpen THEN j ELSE NoFile

\* How exportToJSON ends: it returns void on both paths and throws nothing.
exportOutcome(isOpen) == "returned"

\* ------------------------------------------------------------------ sizes
RECURSIVE totalLen(_, _)
totalLen(ts, logs) ==
    IF ts = {} THEN 0
    ELSE LET t == CHOOSE x \in ts : TRUE
         IN  Len(logs[t]) + totalLen(ts \ {t}, logs)

\* Events held by the profiler: in the thread logs and in the merged frame.
liveEvents == Len(frameEvents) + totalLen(Threads, threadEvents)

\* Whether thread t's buffer is in the registry.
inRegistry(buffers, t) == \E i \in 1..Len(buffers) : buffers[i] = t

RECURSIVE sumOver(_, _)
sumOver(ts, f) ==
    IF ts = {} THEN 0
    ELSE LET t == CHOOSE x \in ts : TRUE
         IN  f[t] + sumOver(ts \ {t}, f)

\* ------------------------------------------------------- history records
\* The most recent call: its name, the calling thread, the id passed to
\* getThreadName, whether the export stream opened, the returned string, how
\* the call ended and what it wrote to the export file.
Call(op, t, id, isOpen, ret, outcome, out) ==
    [ op |-> op, thread |-> t, id |-> id, sinkOpen |-> isOpen, ret |-> ret,
      outcome |-> outcome, out |-> out ]

VoidCall(op, t) == Call(op, t, ForeignId, TRUE, "", "returned", NoFile)

\* The record of getThreadName(id): the string it returns.
getThreadNameCall(id) ==
    Call("getThreadName", Orchestrator, id, TRUE, getThreadName(id), "returned", NoFile)

\* The record of exportToJSON: how it ends and what it writes.
exportToJSONCall(isOpen) ==
    Call("exportToJSON", Orchestrator, ForeignId, isOpen, "", exportOutcome(isOpen),
         exportWrite(isOpen, exportJson(JsonNull, frameEvents)))

\* One zone call of a thread: "S" (pushEventStart) or "E" (pushEventEnd),
\* the tick it was made at and the zone arguments ("E" has none).
ZoneCall(op, t, args) == [op |-> op, at |-> t, args |-> args]
NoArgs == [name |-> "", color |-> "", category |-> ""]

\* The section names passed to ChronoBlade::start and ChronoBlade::end.
Sections == {"drawFrame", "loadResources"}

\* The starts of one section: how many in the latest run of starts with no
\* end in between (counted up to two; 0 when the section was never started),
\* the tick of the first of that run, the tick of the latest start, and
\* whether an end followed the latest start.
NoStarts == [n |-> 0, first |-> 0, latest |-> 0, closed |-> FALSE]

\* The most recent ChronoBlade call: its name, its section, how it ended
\* and the rows it printed or wrote.
BladeCall(op, section, outcome, rows) ==
    [op |-> op, section |-> section, outcome |-> outcome, rows |-> rows]

\* -------------------------------------------------------------------- Init
\* The state after construction, for a ProfilerUI constructed with history
\* size h; a ChronoBlade starts with both maps empty.
InitWith(h) ==
    /\ now = 1
    /\ frameStart = 0
    /\ threadEvents = [t \in Threads |-> << >>]
    /\ registered = [t \in Threads |-> FALSE]
    /\ allThreadBuffers = << >>
    /\ frameEvents = << >>
    /\ threadNames = << >>
    /\ totalEventCount = 0
    /\ lastCall = VoidCall("none", Orchestrator)
    /\ obsNamed = [t \in Threads |-> ""]
    /\ obsPhase = "Idle"
    /\ obsStale = [t \in Threads |-> 0]
    /\ obsFrameStale = 0
    /\ obsTrace = [t \in Threads |-> << >>]
    /\ times = << >>
    /\ results = << >>
    /\ obsBlade = [s \in Sections |-> NoStarts]
    /\ obsBladeCall = BladeCall("none", "", "returned", {})
    /\ maxHistory = h
    /\ frameHistory = << >>
    /\ aggregatedStats = << >>
    /\ totalFrames = 0
    /\ obsCaptured = << >>
    /\ loopPc = "test"
    /\ frameCounter = 0
    /\ doProfile = FALSE
    /\ drawThrew = FALSE
    /\ obsLoop = << >>
    /\ pc = [t \in Threads |-> "idle"]
    /\ mergeMutex = {}
    /\ threadNamesMutex = {}
    /\ uiMutex = {}
    /\ cursor = [t \in Threads |-> 1]
    /\ fault = {}
    /\ obsPushed = [t \in Threads |-> 0]
    /\ obsCleared = [t \in Threads |-> 0]
    /\ obsStarted = 0

Init == InitWith(MaxHistory)

\* ----------------------------------------------------------------- actions
\* Each action is one call of the API on the program's variables; the
\* history variables are updated by the observers further down.

\* The clock advances.
Tick ==
    /\ now < MaxTime
    /\ now' = now + 1
    /\ UNCHANGED << frameStart, threadEvents, registered, allThreadBuffers,
                    frameEvents, threadNames, totalEventCount >>

\* A beginFrame that also empties every thread log.
BeginFrameClearingLogs ==
    /\ frameStart' = now
    /\ frameEvents' = << >>
    /\ totalEventCount' = 0
    /\ threadEvents' = [t \in Threads |-> << >>]
    /\ UNCHANGED << now, registered, allThreadBuffers, threadNames >>

\* ChronoProfiler::beginFrame
BeginFrame ==
    /\ frameStart' = now
    /\ frameEvents' = beginFrameEvents(frameEvents)
    /\ totalEventCount' = 0
    /\ UNCHANGED << now, threadEvents, registered, allThreadBuffers, threadNames >>

\* ChronoProfiler::endFrame
EndFrame ==
    /\ frameEvents' = mergeBuffers(frameEvents, allThreadBuffers, threadEvents)
    /\ threadEvents' = clearBuffers(allThreadBuffers, threadEvents)
    /\ UNCHANGED << now, frameStart, registered, allThreadBuffers, threadNames,
                    totalEventCount >>

\* ChronoProfiler::pushEventStart, called by thread t
PushEventStart(t, args) ==
    LET appended == pushEventStartAppends(threadEvents[t]) IN
    /\ appended => liveEvents < MaxLive
    /\ allThreadBuffers' = registerBuffer(allThreadBuffers, registered[t], t)
    /\ registered' = [registered EXCEPT ![t] = TRUE]
    /\ threadEvents' = [threadEvents EXCEPT
            ![t] = pushEventStartLog(threadEvents[t], args, ThreadId(t), now)]
    /\ totalEventCount' = IF appended THEN totalEventCount + 1 ELSE totalEventCount
    /\ UNCHANGED << now, frameStart, frameEvents, threadNames >>

\* A pushEventEnd that also publishes the zone it closes to the merged events.
PushEventEndPublishing(t) ==
    LET log == pushEventEndLog(threadEvents[t], now, frameStart) IN
    /\ threadEvents' = [threadEvents EXCEPT ![t] = log]
    /\ frameEvents' = IF log = << >> THEN frameEvents
                      ELSE Append(frameEvents, log[Len(log)])
    /\ UNCHANGED << now, frameStart, registered, allThreadBuffers,
                    threadNames, totalEventCount >>

\* ChronoProfiler::pushEventEnd, called by thread t
PushEventEnd(t) ==
    LET log == pushEventEndLog(threadEvents[t], now, frameStart) IN
    /\ \A i \in 1..Len(log) : log[i].startMs >= -MaxDrift
    /\ threadEvents' = [threadEvents EXCEPT ![t] = log]
    /\ UNCHANGED << now, frameStart, registered, allThreadBuffers, frameEvents,
                    threadNames, totalEventCount >>

\* ChronoProfiler::getEvents
GetEvents == UNCHANGED progVars

\* ChronoProfiler::setThreadName, called by thread t
SetThreadName(t, name) ==
    /\ threadNames' = setThreadNameMap(threadNames, ThreadId(t), name)
    /\ UNCHANGED << now, frameStart, threadEvents, registered, allThreadBuffers,
                    frameEvents, totalEventCount >>

\* ChronoProfiler::getThreadName(id)
GetThreadName(id) == UNCHANGED progVars

\* ChronoProfiler::exportToJSON; isOpen is whether the output file opened.
\* The file is outside the profiler: what the call writes to it is part of
\* the record of the call (exportToJSONCall).
ExportToJSON(isOpen) == UNCHANGED progVars

\* --------------------------------------------------------------- observers
\* Updates of the history variables that go with each call.
ObsNone == UNCHANGED obsVars

\* The call and what it returned.
ObsCall(call) ==
    /\ lastCall' = call
    /\ UNCHANGED << obsNamed, obsPhase, obsStale, obsFrameStale, obsTrace >>

ObsBeginFrame ==
    /\ obsPhase' = "Accumulating"
    /\ obsStale' = [t \in Threads |-> Len(threadEvents[t])]
    /\ obsFrameStale' = 0
    /\ obsTrace' = [t \in Threads |-> << >>]
    /\ UNCHANGED obsNamed

ObsEndFrame ==
    /\ obsPhase' = IF obsPhase = "Accumulating" THEN "Merged" ELSE "Idle"
    /\ obsFrameStale' = obsFrameStale
          + sumOver({t \in Threads : inRegistry(allThreadBuffers, t)}, obsStale)
    /\ obsStale' = [t \in Threads |->
                       IF inRegistry(allThreadBuffers, t) THEN 0 ELSE obsStale[t]]
    /\ UNCHANGED << obsNamed, obsTrace >>

\* A zone call of thread t, added to its trace while the frame is open.
ObsZoneCall(t, op, args) ==
    /\ obsPhase = "Accumulating" => totalLen(Threads, obsTrace) < MaxCalls
    /\ obsTrace' = IF obsPhase = "Accumulating"
                   THEN [obsTrace EXCEPT ![t] = Append(@, ZoneCall(op, now, args))]
                   ELSE obsTrace
    /\ UNCHANGED << obsNamed, obsPhase, obsStale, obsFrameStale >>

ObsSetThreadName(t, name) ==
    /\ obsNamed' = [obsNamed EXCEPT ![t] = name]
    /\ lastCall' = VoidCall("setThreadName", t)
    /\ UNCHANGED << obsPhase, obsStale, obsFrameStale, obsTrace >>

\* A step of the ChronoProfiler alone: the ChronoBlade and the ProfilerUI
\* are not called.
ProfilerOnly == UNCHANGED << bladeVars, uiVars, extVars >>

\* -------------------------------------------------- frames and zones (Spec)
\* Any number of frames; every thread may record inside and outside frames.
Next ==
    \/ Tick /\ ObsNone /\ ProfilerOnly
    \/ BeginFrame /\ ObsBeginFrame /\ UNCHANGED lastCall /\ ProfilerOnly
    \/ EndFrame /\ ObsEndFrame /\ UNCHANGED lastCall /\ ProfilerOnly
    \/ \E t \in Threads : PushEventStart(t, ZoneOf(t)) /\ ObsNone /\ ProfilerOnly
    \/ \E t \in Threads : PushEventEnd(t) /\ ObsNone /\ ProfilerOnly
    \/ GetEvents /\ ObsNone /\ ProfilerOnly

Spec == Init /\ [][Next]_vars

\* ------------------------------------------------- one frame (SpecFrame)
\* One frame, with the zone calls of each thread recorded: recording before
\* beginFrame, then beginFrame, recording, endFrame, and reads of the result.
NextFrame ==
    \/ Tick /\ ObsNone /\ ProfilerOnly
    \/ /\ obsPhase = "Idle"
       /\ BeginFrame /\ ObsBeginFrame /\ lastCall' = VoidCall("beginFrame", Orchestrator)
       /\ ProfilerOnly
    \/ /\ obsPhase = "Accumulating"
       /\ EndFrame /\ ObsEndFrame /\ lastCall' = VoidCall("endFrame", Orchestrator)
       /\ ProfilerOnly
    \/ \E t \in Threads :
          /\ obsPhase # "Merged"
          /\ PushEventStart(t, ZoneOf(t)) /\ ObsZoneCall(t, "S", ZoneOf(t))
          /\ lastCall' = VoidCall("pushEventStart", t)
          /\ ProfilerOnly
    \/ \E t \in Threads :
          /\ obsPhase # "Merged"
          /\ PushEventEnd(t) /\ ObsZoneCall(t, "E", NoArgs)
          /\ lastCall' = VoidCall("pushEventEnd", t)
          /\ ProfilerOnly
    \/ /\ obsPhase = "Merged"
       /\ GetEvents /\ ObsCall(VoidCall("getEvents", Orchestrator))
       /\ ProfilerOnly

SpecFrame == Init /\ [][NextFrame]_vars

\* ------------------------------------------------ the whole API (SpecApi)
\* Every operation of the API, in any order, at one tick of the clock and
\* with as many events held at one time as there are threads.
NextApi ==
    \/ BeginFrame /\ ObsCall(VoidCall("beginFrame", Orchestrator)) /\ ProfilerOnly
    \/ EndFrame /\ ObsCall(VoidCall("endFrame", Orchestrator)) /\ ProfilerOnly
    \/ \E t \in Threads :
          /\ liveEvents < Cardinality(Threads)
          /\ PushEventStart(t, ZoneOf(t)) /\ ObsCall(VoidCall("pushEventStart", t))
          /\ ProfilerOnly
    \/ \E t \in Threads :
          PushEventEnd(t) /\ ObsCall(VoidCall("pushEventEnd", t)) /\ ProfilerOnly
    \/ GetEvents /\ ObsCall(VoidCall("getEvents", Orchestrator)) /\ ProfilerOnly
    \/ \E t \in Threads, name \in ThreadNameSet :
          SetThreadName(t, name) /\ ObsSetThreadName(t, name) /\ ProfilerOnly
    \/ \E id \in QueryIds :
          GetThreadName(id) /\ ObsCall(getThreadNameCall(id)) /\ ProfilerOnly
    \/ \E isOpen \in BOOLEAN :
          ExportToJSON(isOpen) /\ ObsCall(exportToJSONCall(isOpen)) /\ ProfilerOnly

SpecApi == Init /\ [][NextApi]_vars

\* ------------------------------------------------- ChronoBlade (SpecBlade)
\* A start that keeps the start time a section already has (emplace).
bladeStartTimesFirst(tms, section, t) ==
    [i \in (DOMAIN tms) \cup {section} |-> IF i \in DOMAIN tms THEN tms[i] ELSE t]

\* times[section] = now
bladeStartTimes(tms, section, t) ==
    [i \in (DOMAIN tms) \cup {section} |-> IF i = section THEN t ELSE tms[i]]

\* results[section] of std::unordered_map::operator[]: the stored pair, or a
\* value-initialized one.
bladeResultAt(res, section) ==
    IF section \in DOMAIN res THEN res[section] ELSE [first |-> 0, second |-> 0]

\* An end that reads times[section] without looking the section up first:
\* a section never started is measured from the clock's epoch.
bladeEndResultsUnchecked(tms, res, section, t) ==
    LET started == IF section \in DOMAIN tms THEN tms[section] ELSE 0
        old == IF section \in DOMAIN res THEN res[section] ELSE [first |-> 0, second |-> 0]
    IN  [i \in (DOMAIN res) \cup {section} |->
            IF i = section
              THEN [first |-> old.first + (t - started), second |-> old.second + 1]
              ELSE res[i]]

\* ChronoBlade::end on the results map: nothing when the section has no
\* start time, else the elapsed time added and the call counted.
bladeEndResults(tms, res, section, t) ==
    IF section \notin DOMAIN tms
      THEN res
      ELSE LET ms == t - tms[section]
               old == bladeResultAt(res, section)
           IN  [i \in (DOMAIN res) \cup {section} |->
                   IF i = section
                     THEN [first |-> old.first + ms, second |-> old.second + 1]
                     ELSE res[i]]

\* How ChronoBlade::end ends: with a warning on std::cerr, or silently.
bladeEndOutcome(tms, section) ==
    IF section \notin DOMAIN tms THEN "warned" ELSE "returned"

\* The rows report() prints and exportCSV() writes, one per section of the
\* results map (the map's iteration order is unspecified): the average is
\* data.first / data.second, kept as the pair of its operands.
bladeRows(res) ==
    {[section |-> i, avgOf |-> res[i].first, avgOver |-> res[i].second,
      calls |-> res[i].second] : i \in DOMAIN res}

\* ChronoBlade::start
BladeStart(section) ==
    /\ times' = bladeStartTimes(times, section, now)
    /\ UNCHANGED results

\* An end that consumes the start time it measured from.
BladeEndErasing(section) ==
    /\ bladeResultAt(results, section).second < MaxBladeCalls
    /\ results' = bladeEndResults(times, results, section, now)
    /\ times' = [i \in (DOMAIN times) \ {section} |-> times[i]]

\* ChronoBlade::end
BladeEnd(section) ==
    /\ bladeResultAt(results, section).second < MaxBladeCalls
    /\ results' = bladeEndResults(times, results, section, now)
    /\ UNCHANGED times

\* ChronoBlade::report
BladeReport == UNCHANGED << times, results >>

\* ChronoBlade::exportCSV; isOpen is whether the output file opened.
BladeExportCSV(isOpen) == UNCHANGED << times, results >>

\* The record of exportCSV: it throws std::runtime_error when the file did
\* not open, else writes the rows.
bladeExportCall(isOpen) ==
    IF isOpen THEN BladeCall("exportCSV", "", "returned", bladeRows(results))
              ELSE BladeCall("exportCSV", "", "threw", {})

ObsBladeStart(section) ==
    /\ obsBlade' = [obsBlade EXCEPT ![section] =
          [n |-> IF @.n = 0 \/ @.closed THEN 1 ELSE IF @.n < 2 THEN @.n + 1 ELSE @.n,
           first |-> IF @.n = 0 \/ @.closed THEN now ELSE @.first,
           latest |-> now,
           closed |-> FALSE]]
    /\ obsBladeCall' = BladeCall("start", section, "returned", {})

ObsBladeEnd(section) ==
    /\ obsBlade' = [obsBlade EXCEPT ![section].closed = TRUE]
    /\ obsBladeCall' = BladeCall("end", section, bladeEndOutcome(times, section), {})

ObsBladeCall(call) ==
    /\ obsBladeCall' = call
    /\ UNCHANGED obsBlade

\* A step of the ChronoBlade or of the clock alone.
BladeOnly == UNCHANGED << frameStart, threadEvents, registered, allThreadBuffers,
                         frameEvents, threadNames, totalEventCount, obsVars, uiVars,
                         extVars >>

\* Every operation of a ChronoBlade, in any order, as the clock advances.
NextBlade ==
    \/ Tick /\ UNCHANGED << obsVars, bladeVars, uiVars, extVars >>
    \/ \E section \in Sections :
          BladeStart(section) /\ ObsBladeStart(section) /\ UNCHANGED now /\ BladeOnly
    \/ \E section \in Sections :
          BladeEnd(section) /\ ObsBladeEnd(section) /\ UNCHANGED now /\ BladeOnly
    \/ /\ BladeReport
       /\ ObsBladeCall(BladeCall("report", "", "returned", bladeRows(results)))
       /\ UNCHANGED now /\ BladeOnly
    \/ \E isOpen \in BOOLEAN :
          /\ BladeExportCSV(isOpen) /\ ObsBladeCall(bladeExportCall(isOpen))
          /\ UNCHANGED now /\ BladeOnly

SpecBlade == Init /\ [][NextBlade]_vars

\* ---------------------------------------------------- ProfilerUI (SpecUI)
\* A rolling history that drops the newest of its frames when it is full.
historyPushDropNewest(history, events, limit) ==
    IF Len(history) >= limit /\ history # << >>
      THEN history
      ELSE IF limit = 0 THEN << >> ELSE Append(history, events)

\* frameHistory.push_back(events), then the oldest frame erased when the
\* size exceeds maxHistory.
historyPush(history, events, limit) ==
    LET pushed == Append(history, events)
    IN  IF Len(pushed) > limit THEN Tail(pushed) ELSE pushed

\* ZoneStats, value-initialized, and ZoneStats::add.
NoStats == [totalMs |-> 0, maxMs |-> 0, count |-> 0]
zoneStatsAdd(st, duration) ==
    [ totalMs |-> st.totalMs + duration,
      maxMs |-> IF duration > st.maxMs THEN duration ELSE st.maxMs,
      count |-> st.count + 1 ]

\* aggregatedStats[name].add(durationMs) for every event, in order.
RECURSIVE aggregate(_, _)
aggregate(stats, events) ==
    IF events = << >>
      THEN stats
      ELSE LET evt == Head(events)
               old == IF evt.name \in DOMAIN stats THEN stats[evt.name] ELSE NoStats
           IN  aggregate(
                 [i \in (DOMAIN stats) \cup {evt.name} |->
                     IF i = evt.name THEN zoneStatsAdd(old, evt.durationMs)
                                     ELSE stats[i]],
                 Tail(events))

\* What render() shows: the frame number and the most recent frame of the
\* history, if there is one.
renderCall ==
    Call("render", Orchestrator, ForeignId, TRUE, "", "returned",
         [kind |-> "frame", number |-> totalFrames,
          items |-> IF frameHistory = << >> THEN << >>
                    ELSE frameHistory[Len(frameHistory)]])

\* ProfilerUI::update
Update ==
    /\ totalFrames < MaxUpdates
    /\ frameHistory' = historyPush(frameHistory, getEvents, maxHistory)
    /\ aggregatedStats' = aggregate(aggregatedStats, getEvents)
    /\ totalFrames' = totalFrames + 1
    /\ UNCHANGED << maxHistory, progVars >>

\* ProfilerUI::render
Render == UNCHANGED << maxHistory, frameHistory, aggregatedStats, totalFrames, progVars >>

ObsUpdate ==
    /\ obsCaptured' = Append(obsCaptured, frameEvents)
    /\ ObsCall(VoidCall("update", Orchestrator))

\* A ProfilerUI of any history size up to MaxHistory.
InitUI == \E h \in 0..MaxHistory : InitWith(h)

\* Frames recorded and merged by the profiler, read by update() and shown
\* by render(), at one tick of the clock.  As in the render loop, the zones
\* are recorded by the thread that runs the frames, one event at a time.
NextUI ==
    \/ BeginFrame /\ ObsNone /\ ProfilerOnly
    \/ EndFrame /\ ObsNone /\ ProfilerOnly
    \/ /\ liveEvents = 0
       /\ PushEventStart(Orchestrator, ZoneOf(Orchestrator)) /\ ObsNone /\ ProfilerOnly
    \/ PushEventEnd(Orchestrator) /\ ObsNone /\ ProfilerOnly
    \/ Update /\ ObsUpdate /\ UNCHANGED << bladeVars, extVars >>
    \/ Render /\ ObsCall(renderCall) /\ UNCHANGED << obsCaptured, bladeVars, extVars >>

SpecUI == InitUI /\ [][NextUI]_vars

\* ------------------------------------------- frame lifecycle (SpecLifecycle)
\* beginFrame and endFrame in any order and any number of times, with zones
\* recorded and names set in between, as the clock advances; every call is
\* recorded.  As many events are held at one time as there are threads.
NextLifecycle ==
    \/ Tick /\ ObsNone /\ ProfilerOnly
    \/ BeginFrame /\ ObsCall(VoidCall("beginFrame", Orchestrator)) /\ ProfilerOnly
    \/ EndFrame /\ ObsCall(VoidCall("endFrame", Orchestrator)) /\ ProfilerOnly
    \/ \E t \in Threads :
          /\ liveEvents < Cardinality(Threads)
          /\ PushEventStart(t, ZoneOf(t)) /\ ObsCall(VoidCall("pushEventStart", t))
          /\ ProfilerOnly
    \/ \E t \in Threads :
          PushEventEnd(t) /\ ObsCall(VoidCall("pushEventEnd", t)) /\ ProfilerOnly
    \/ \E t \in Threads, name \in ThreadNameSet :
          SetThreadName(t, name) /\ ObsSetThreadName(t, name) /\ ProfilerOnly

SpecLifecycle == Init /\ [][NextLifecycle]_vars

\* ---------------------------------------------- frame after frame (SpecOrder)
\* The zone names a thread passes to pushEventStart, one call after another.
ZoneNameSet == {"physics", "render"}
NamedZone(t, name) == [ZoneOf(t) EXCEPT !.name = name]

\* Frame after frame as ScopedFrame runs them: beginFrame, zones of any
\* names recorded by the threads as the clock advances, endFrame, and again.
NextOrder ==
    \/ Tick /\ ObsNone /\ ProfilerOnly
    \/ /\ obsPhase # "Accumulating"
       /\ BeginFrame /\ ObsBeginFrame /\ UNCHANGED lastCall /\ ProfilerOnly
    \/ /\ obsPhase = "Accumulating"
       /\ EndFrame /\ ObsEndFrame /\ UNCHANGED lastCall /\ ProfilerOnly
    \/ \E t \in Threads, name \in ZoneNameSet :
          /\ obsPhase = "Accumulating"
          /\ PushEventStart(t, NamedZone(t, name))
          /\ ObsZoneCall(t, "S", NamedZone(t, name))
          /\ UNCHANGED lastCall /\ ProfilerOnly
    \/ \E t \in Threads :
          /\ obsPhase = "Accumulating"
          /\ PushEventEnd(t) /\ ObsZoneCall(t, "E", NoArgs)
          /\ UNCHANGED lastCall /\ ProfilerOnly

SpecOrder == Init /\ [][NextOrder]_vars

\* ================================================================= claims
\* The events of one thread in a sequence of events.
eventsOf(events, tid) == SelectSeq(events, LAMBDA e : e.threadId = tid)

\* Zone calls of a trace: the starts, the ends, in the first k calls.
startsIn(tr, k) == Cardinality({i \in 1..k : tr[i].op = "S"})
endsIn(tr, k) == Cardinality({i \in 1..k : tr[i].op = "E"})
\* Every end closes a zone opened before it, and no zone is left open.
properlyNested(tr) ==
    /\ \A k \in 1..Len(tr) : endsIn(tr, k) <= startsIn(tr, k)
    /\ endsIn(tr, Len(tr)) = startsIn(tr, Len(tr))


\* ---- C1
\* C1 (balanced pairing): after the endFrame that closes a frame, for every
\* thread whose log was empty at beginFrame and whose pushEventStart /
\* pushEventEnd calls in the frame were properly nested and at most
\* kMaxEventsPerThread starts, the merged events of that thread number exactly
\* its pushEventStart calls and every one of them has durationMs >= 0.
C1_BalancedPairing ==
    (obsPhase = "Merged" /\ obsFrameStale = 0) =>
        \A t \in Threads :
            ( /\ properlyNested(obsTrace[t])
              /\ startsIn(obsTrace[t], Len(obsTrace[t])) <= kMaxEventsPerThread )
            => LET mine == eventsOf(frameEvents, ThreadId(t))
               IN  /\ Len(mine) = startsIn(obsTrace[t], Len(obsTrace[t]))
                   /\ \A i \in 1..Len(mine) : mine[i].durationMs >= 0

\* ---- C2
\* C2: in every reachable state every merged event has durationMs >= 0 (no
\* event with the sentinel -1 leaves a thread log).
C2_MergedFinalized ==
    \A i \in 1..Len(frameEvents) : frameEvents[i].durationMs >= 0

\* ---- C3
\* C3 (capacity bound): when a thread issued more than kMaxEventsPerThread
\* pushEventStart calls within the frame, the endFrame that closes the frame
\* leaves exactly kMaxEventsPerThread events of that thread in the merged
\* events.
C3_CapacityBound ==
    obsPhase = "Merged" =>
        \A t \in Threads :
            startsIn(obsTrace[t], Len(obsTrace[t])) > kMaxEventsPerThread
            => Len(eventsOf(frameEvents, ThreadId(t))) = kMaxEventsPerThread

C3_Witness ==
    /\ obsPhase = "Merged"
    /\ \E t \in Threads :
          /\ startsIn(obsTrace[t], Len(obsTrace[t])) > kMaxEventsPerThread
          /\ Len(eventsOf(frameEvents, ThreadId(t))) = kMaxEventsPerThread

\* ---- C4
\* C4 (frame isolation, as claimed): no event recorded before the latest
\* beginFrame is among the merged events.
C4_FrameIsolation == obsFrameStale = 0

\* C4 (as amended): the events the profiler holds are exactly the events
\* that were still in a thread log at the latest beginFrame plus the events
\* recorded since (totalEventCount), each held once: beginFrame discards the
\* events merged before it and none of them comes back, while an event that
\* was still in a thread log at beginFrame stays in that log and is merged
\* by the next endFrame.
C4_FrameIsolationAmended ==
    /\ liveEvents = obsFrameStale + sumOver(Threads, obsStale) + totalEventCount
    /\ obsFrameStale <= Len(frameEvents)
    /\ \A t \in Threads : obsStale[t] <= Len(threadEvents[t])
    /\ obsPhase = "Accumulating" => frameEvents = << >>

C4_Witness ==
    /\ obsPhase = "Merged"
    /\ obsFrameStale > 0
    /\ totalEventCount > 0

\* ---- C5
\* C5: pushEventEnd never changes the length of the calling thread's log.
C5_EndKeepsLength ==
    [][ \A t \in Threads :
           PushEventEnd(t) => Len(threadEvents'[t]) = Len(threadEvents[t]) ]_vars

\* pushEventEnd returned with no open zone: on an empty log, or on a log
\* whose events were all finalized already.
C5_Witness ==
    /\ lastCall.op = "pushEventEnd"
    /\ lastCall.outcome = "returned"
    /\ threadEvents[lastCall.thread] = << >>

\* ---- C6
\* The name getThreadName is to return for an id: the name its thread set
\* last, "<unnamed>" when no thread with that id has set a name.
expectedName(id) ==
    IF \E t \in Threads : ThreadId(t) = id /\ obsNamed[t] # ""
      THEN obsNamed[CHOOSE t \in Threads : ThreadId(t) = id /\ obsNamed[t] # ""]
      ELSE Unnamed

\* C6 (name resolution): getThreadName(id) returns "<unnamed>" for an id whose
\* thread never called setThreadName, and otherwise the name that thread set
\* most recently, whatever frame and zone calls were made in between.
C6_NameResolution ==
    /\ lastCall.op = "getThreadName" => lastCall.ret = expectedName(lastCall.id)
    /\ \A id \in QueryIds : getThreadName(id) = expectedName(id)

C6_Witness ==
    /\ lastCall.op = "getThreadName"
    /\ lastCall.ret = "Worker"
    /\ \E t \in Threads : obsNamed[t] = "Main"
    /\ frameEvents # << >>

\* ---- C7
\* A trace of exactly one zone: one pushEventStart, then one pushEventEnd.
oneZone(tr) == Len(tr) = 2 /\ tr[1].op = "S" /\ tr[2].op = "E"

\* The event of a one-zone trace of thread t, as the claim gives it.
zoneEvent(t) ==
    LET tr == obsTrace[t] IN
    [ name |-> tr[1].args.name,
      startMs |-> tr[1].at - frameStart,
      durationMs |-> tr[2].at - tr[1].at,
      threadId |-> ThreadId(t),
      color |-> tr[1].args.color,
      category |-> tr[1].args.category ]

\* C7: when two threads each recorded one zone in the frame (start at tick
\* s, end at tick e) and no other event was pending, getEvents after
\* endFrame returns exactly two events, one per thread, each with
\* startMs = s - frameStart, durationMs = e - s, the name passed to
\* pushEventStart and the id of its thread.
C7_TwoThreadScenario ==
    (obsPhase = "Merged" /\ obsFrameStale = 0) =>
        \A a, b \in Threads :
            ( /\ a # b
              /\ oneZone(obsTrace[a]) /\ oneZone(obsTrace[b])
              /\ \A c \in Threads \ {a, b} : obsTrace[c] = << >> )
            => /\ Len(getEvents) = 2
               /\ {getEvents[1], getEvents[2]} = {zoneEvent(a), zoneEvent(b)}
               /\ getEvents[1] # getEvents[2]

C7_Witness ==
    /\ obsPhase = "Merged" /\ obsFrameStale = 0
    /\ lastCall.op = "getEvents"
    /\ \A t \in Threads : oneZone(obsTrace[t])
    /\ \E t \in Threads : zoneEvent(t).startMs > 0 /\ zoneEvent(t).durationMs = 0
    /\ \E t \in Threads : zoneEvent(t).startMs = 0 /\ zoneEvent(t).durationMs > 0

\* ---- C8
\* C8: when the export file cannot be opened, exportToJSON ends with an
\* error reported to its caller.
C8_ExportFailureReported ==
    (lastCall.op = "exportToJSON" /\ ~lastCall.sinkOpen) => lastCall.outcome = "error"

\* ---- C9
\* C9: only beginFrame and endFrame change the merged events; every other
\* call (pushEventStart, pushEventEnd, setThreadName, getThreadName,
\* getEvents, exportToJSON with the file opened or not) leaves them, and so
\* what getEvents returns, unchanged.
C9_OnlyFrameCallsChangeMerged ==
    [][ lastCall'.op \notin {"beginFrame", "endFrame"} => getEvents' = getEvents ]_vars

C9_Witness ==
    /\ lastCall.op = "exportToJSON"
    /\ ~lastCall.sinkOpen
    /\ frameEvents # << >>
    /\ \E t \in Threads : threadEvents[t] # << >>

\* ---- C10
\* C10: a successful export writes a list with exactly one record per merged
\* event, in merged order, each with the event's name, startMs, durationMs,
\* threadId, color and category and with threadName = getThreadName(threadId);
\* with no merged event the list is empty.
C10_ExportRecords ==
    (lastCall.op = "exportToJSON" /\ lastCall.sinkOpen) =>
        /\ lastCall.out.kind = "array"
        /\ Len(lastCall.out.items) = Len(frameEvents)
        /\ \A i \in 1..Len(frameEvents) :
              LET r == lastCall.out.items[i]
                  e == frameEvents[i]
              IN  /\ r.name = e.name /\ r.startMs = e.startMs
                  /\ r.durationMs = e.durationMs /\ r.threadId = e.threadId
                  /\ r.color = e.color /\ r.category = e.category
                  /\ r.threadName = getThreadName(e.threadId)

\* ---- C11
\* C11: ChronoBlade::end(section) for a section never passed to start() is
\* ignored: the results map and the start-time map are unchanged.  (A step
\* that leaves the clock alone and whose latest call is end(section) is that
\* call.)
C11_EndBeforeStartIgnored ==
    [][ \A section \in Sections :
           ( /\ now' = now
             /\ obsBladeCall'.op = "end"
             /\ obsBladeCall'.section = section
             /\ obsBlade[section].n = 0 )
           => results' = results /\ times' = times ]_vars

C11_Witness ==
    /\ obsBladeCall.op = "end"
    /\ obsBladeCall.outcome = "warned"
    /\ obsBlade[obsBladeCall.section].n = 0
    /\ results # << >>
    /\ times # << >>

\* ---- C12
\* C12: ChronoBlade::start(section) sets the section's start time to the
\* current time, overwriting an earlier one, and end(section) on a started
\* section adds the time elapsed since the latest start(section) to the
\* section's accumulated total, adds exactly 1 to its call count and leaves
\* the record of every other section (and which sections have one) unchanged.
C12_EndMeasuresLatestStart ==
    [][ \A section \in Sections :
           /\ ( now' = now /\ obsBladeCall'.op = "start"
                /\ obsBladeCall'.section = section )
              => times'[section] = now
           /\ ( /\ now' = now
                /\ obsBladeCall'.op = "end"
                /\ obsBladeCall'.section = section
                /\ obsBlade[section].n > 0 )
              => /\ section \in DOMAIN results'
                 /\ results'[section].first =
                       bladeResultAt(results, section).first
                         + (now - obsBlade[section].latest)
                 /\ results'[section].second =
                       bladeResultAt(results, section).second + 1
                 /\ DOMAIN results' = (DOMAIN results) \cup {section}
                 /\ \A other \in (DOMAIN results) \ {section} :
                       results'[other] = results[other] ]_vars

\* An end after two starts at different ticks, measured from the second,
\* with another section's record in the map.
C12_Witness ==
    /\ obsBladeCall.op = "end"
    /\ LET section == obsBladeCall.section
           o == obsBlade[section]
       IN  /\ o.n = 2 /\ o.closed /\ o.first < o.latest
           /\ section \in DOMAIN results
           /\ results[section] = [first |-> now - o.latest, second |-> 1]
           /\ \E other \in (DOMAIN results) \ {section} : results[other].second >= 1

\* ---- C13
\* The smaller of two numbers.
minOf(a, b) == IF a <= b THEN a ELSE b

\* C13 (rolling history): after every update() the history holds at most
\* maxHistory frames, namely the most recently captured ones in capture
\* order, and totalFrames is the number of update() calls made so far, also
\* when that is more than maxHistory.
C13_RollingHistory ==
    LET n == Len(obsCaptured)
        k == minOf(n, maxHistory)
    IN  /\ Len(frameHistory) <= maxHistory
        /\ frameHistory = SubSeq(obsCaptured, n - k + 1, n)
        /\ totalFrames = n

\* The history is full of distinct frames and an older frame was dropped.
C13_Witness ==
    /\ lastCall.op = "update"
    /\ maxHistory = 2
    /\ totalFrames > maxHistory
    /\ Len(frameHistory) = maxHistory
    /\ obsCaptured[1] # obsCaptured[2]
    /\ frameHistory[1] # frameHistory[2]

\* ---- C14
\* The last event of a log that is still unfinalized (0 when there is none).
lastOpen(log) ==
    IF \E i \in 1..Len(log) : log[i].durationMs < 0
      THEN CHOOSE i \in 1..Len(log) :
             /\ log[i].durationMs < 0
             /\ \A j \in (i + 1)..Len(log) : log[j].durationMs >= 0
      ELSE 0

\* The log a thread is to hold after the zone calls of a trace, when each
\* pushEventEnd finalizes the most recently appended unfinalized event.
RECURSIVE lifoLog(_, _, _, _)
lifoLog(log, tr, tid, fs) ==
    IF tr = << >>
      THEN log
      ELSE LET c == Head(tr)
               i == lastOpen(log)
               next ==
                 IF c.op = "S"
                   THEN IF Len(log) >= kMaxEventsPerThread THEN log
                        ELSE Append(log, NewEvent(c.args, tid, c.at))
                   ELSE IF i = 0 THEN log
                        ELSE [log EXCEPT ![i] =
                               [log[i] EXCEPT
                                  !.durationMs = c.at - log[i].startMs,
                                  !.startMs = log[i].startMs - fs]]
           IN  lifoLog(next, Tail(tr), tid, fs)

\* C14: within a frame, on a thread whose log was empty at beginFrame, each
\* pushEventEnd finalizes the most recently appended event that is still
\* unfinalized: the log is the one obtained by pairing every end with the
\* latest open start (for start A, start B, end, end: B by the first end, A
\* by the second), each event's duration set and start rewritten once.
C14_FinalizesLatestOpen ==
    obsPhase = "Accumulating" =>
        \A t \in Threads :
            ( obsStale[t] = 0 /\ properlyNested(obsTrace[t]) )
            => threadEvents[t] = lifoLog(<< >>, obsTrace[t], ThreadId(t), frameStart)

\* ---- C15
\* C15: pushEventEnd on a log that is empty or holds only finalized events
\* changes no field of any event of the log.
C15_EndWithoutOpenZoneIsNoOp ==
    [][ \A t \in Threads :
           ( /\ lastCall'.op = "pushEventEnd"
             /\ lastCall'.thread = t
             /\ \A i \in 1..Len(threadEvents[t]) : threadEvents[t][i].durationMs >= 0 )
           => threadEvents' = threadEvents ]_vars

\* ---- C16
\* C16: every thread log holds at most kMaxEventsPerThread events;
\* pushEventStart on a full log returns normally and leaves the log as it
\* was, and pushEventStart on a log that is not full appends exactly one
\* event, with durationMs = -1, at the end of the log.
C16_PushStartCapacity ==
    /\ [](\A t \in Threads : Len(threadEvents[t]) <= kMaxEventsPerThread)
    /\ [][ \A t \in Threads :
             ( now' = now /\ lastCall'.op = "pushEventStart" /\ lastCall'.thread = t )
             => LET old == threadEvents[t]
                    new == threadEvents'[t]
                IN  IF Len(old) >= kMaxEventsPerThread
                      THEN new = old /\ lastCall'.outcome = "returned"
                      ELSE /\ Len(new) = Len(old) + 1
                           /\ SubSeq(new, 1, Len(old)) = old
                           /\ new[Len(new)].durationMs = -1 ]_vars

\* A pushEventStart was dropped on a full log.
C16_Witness ==
    /\ obsPhase = "Accumulating"
    /\ lastCall.op = "pushEventStart"
    /\ Len(threadEvents[lastCall.thread]) = kMaxEventsPerThread
    /\ startsIn(obsTrace[lastCall.thread], Len(obsTrace[lastCall.thread]))
          > kMaxEventsPerThread

\* ---- C17
\* How many events the first k buffers of the registry hold.
RECURSIVE heldBy(_, _, _)
heldBy(buffers, logs, k) ==
    IF k = 0 THEN 0 ELSE heldBy(buffers, logs, k - 1) + Len(logs[buffers[k]])

\* C17: endFrame keeps the merged events it finds and appends the contents
\* of every registered thread's log, each log in its own order and the logs
\* in registry order: the j-th event of the k-th buffer lands right after
\* the events of the buffers before it, none skipped and none copied twice;
\* afterwards the log of every registered thread is empty.
C17_EndFrameMerges ==
    [][ lastCall'.op = "endFrame" =>
          LET n == Len(allThreadBuffers)
              base == Len(frameEvents)
          IN  /\ Len(frameEvents') = base + heldBy(allThreadBuffers, threadEvents, n)
              /\ SubSeq(frameEvents', 1, base) = frameEvents
              /\ \A k \in 1..n :
                    \A j \in 1..Len(threadEvents[allThreadBuffers[k]]) :
                       frameEvents'[base + heldBy(allThreadBuffers, threadEvents, k - 1) + j]
                         = threadEvents[allThreadBuffers[k]][j]
              /\ \A t \in Threads : registered[t] => threadEvents'[t] = << >>
              /\ \A t \in Threads : registered[t] <=> inRegistry(allThreadBuffers, t)
      ]_vars

\* A merge of two logs whose registry order is not the order of the thread
\* numbers.
C17_Witness ==
    /\ lastCall.op = "endFrame"
    /\ Len(allThreadBuffers) = 2
    /\ allThreadBuffers[1] # Orchestrator
    /\ Len(frameEvents) = 2
    /\ frameEvents[1].threadId = ThreadId(allThreadBuffers[1])
    /\ frameEvents[2].threadId = ThreadId(allThreadBuffers[2])
    /\ \A t \in Threads : threadEvents[t] = << >>

\* ---- C18
\* C18: after every endFrame, also one that follows another endFrame with no
\* beginFrame in between, the merged events are exactly the events that were
\* in the thread logs at that endFrame, with nothing left over from an
\* earlier endFrame.
C18_EndFrameReplaces ==
    [][ lastCall'.op = "endFrame" =>
          LET n == Len(allThreadBuffers)
          IN  /\ Len(frameEvents') = heldBy(allThreadBuffers, threadEvents, n)
              /\ \A k \in 1..n :
                    \A j \in 1..Len(threadEvents[allThreadBuffers[k]]) :
                       frameEvents'[heldBy(allThreadBuffers, threadEvents, k - 1) + j]
                         = threadEvents[allThreadBuffers[k]][j]
      ]_vars

\* ---- C19
\* C19: beginFrame, in whatever state it is called (also twice in a row),
\* sets the frame start to the current time and leaves the merged events
\* empty; it leaves every thread log, the registry and the thread names
\* unchanged.
C19_BeginFrameEffect ==
    [][ ( now' = now /\ lastCall'.op = "beginFrame" ) =>
          /\ frameStart' = now
          /\ frameEvents' = << >>
          /\ threadEvents' = threadEvents
          /\ allThreadBuffers' = allThreadBuffers
          /\ registered' = registered
          /\ threadNames' = threadNames
      ]_vars

\* A second beginFrame in a row, at a later tick than the first, with an
\* event in a log and a name set.
C19_Witness ==
    /\ lastCall.op = "beginFrame"
    /\ frameStart = now
    /\ now > 1
    /\ frameEvents = << >>
    /\ \E t \in Threads : threadEvents[t] # << >> /\ threadEvents[t][1].startMs < 0
    /\ threadNames # << >>

\* ---- C20
\* The names of a sequence of events or of zone calls, in order.
namesOf(events) == [i \in 1..Len(events) |-> events[i].name]
callNames(tr) == [i \in 1..Len(tr) |-> tr[i].args.name]

\* The pushEventStart calls of a trace that found room in the log.
startsKept(tr) ==
    LET ss == SelectSeq(tr, LAMBDA c : c.op = "S")
    IN  SubSeq(ss, 1, minOf(Len(ss), kMaxEventsPerThread))

\* The place of a thread id in the registry.
registryIndex(tid) ==
    CHOOSE k \in 1..Len(allThreadBuffers) : ThreadId(allThreadBuffers[k]) = tid

\* C20 (ordering): in the merged events of a frame the events of any one
\* thread are in the order of that thread's pushEventStart calls, and every
\* event of a thread registered earlier precedes every event of a thread
\* registered later, whatever their timestamps.
C20_MergedOrder ==
    obsPhase = "Merged" =>
        /\ \A t \in Threads :
              namesOf(eventsOf(frameEvents, ThreadId(t)))
                = callNames(startsKept(obsTrace[t]))
        /\ \A i, j \in 1..Len(frameEvents) :
              i < j => registryIndex(frameEvents[i].threadId)
                         <= registryIndex(frameEvents[j].threadId)

\* The thread registered first started its zone at a later tick than the
\* thread registered second, and its event still comes first.
C20_Witness ==
    /\ obsPhase = "Merged"
    /\ Len(allThreadBuffers) = 2
    /\ Len(frameEvents) = 2
    /\ frameEvents[1].threadId = ThreadId(allThreadBuffers[1])
    /\ frameEvents[2].threadId = ThreadId(allThreadBuffers[2])
    /\ obsTrace[allThreadBuffers[1]][1].at > obsTrace[allThreadBuffers[2]][1].at

\* ------------------------------------------------- the render loop (SpecLoop)
\* The build with PROFILER defined, in which the scoped helpers call the
\* profiler.
\* const int profileEveryNFrames of mainLoop
profileEveryNFrames == 10

\* The arguments of PROFILE_SCOPE("drawFrame()").
drawFrameZone == [name |-> "drawFrame()", color |-> DefaultColor, category |-> ""]

\* A loop that profiles every iteration.
loopDoProfileAlways(counter) == TRUE

\* bool doProfile = (frameCounter % profileEveryNFrames == 0)
loopDoProfile(counter) == counter % profileEveryNFrames = 0

\* The loop test, glfwPollEvents and the computation of doProfile; the
\* window closes at any iteration (shouldClose), and by MaxFrames.
LoopTest(shouldClose) ==
    /\ loopPc = "test"
    /\ ~shouldClose => frameCounter < MaxFrames
    /\ doProfile' = IF shouldClose THEN doProfile ELSE loopDoProfile(frameCounter)
    /\ loopPc' = IF shouldClose THEN "export"
                 ELSE IF loopDoProfile(frameCounter) THEN "beginFrame" ELSE "drawFrame"
    /\ obsLoop' = << >>
    /\ UNCHANGED << frameCounter, drawThrew >>

\* ChronoProfiler::ScopedFrame frame;
LoopScopedFrame ==
    /\ loopPc = "beginFrame"
    /\ BeginFrame
    /\ loopPc' = "pushEventStart"
    /\ obsLoop' = Append(obsLoop, "beginFrame")
    /\ UNCHANGED << frameCounter, doProfile, drawThrew >>

\* PROFILE_SCOPE("drawFrame()");
LoopScopedZone ==
    /\ loopPc = "pushEventStart"
    /\ PushEventStart(Orchestrator, drawFrameZone)
    /\ loopPc' = "drawFrame"
    /\ obsLoop' = Append(obsLoop, "pushEventStart")
    /\ UNCHANGED << frameCounter, doProfile, drawThrew >>

\* The time drawFrame takes.
LoopDrawing ==
    /\ loopPc = "drawFrame"
    /\ Tick
    /\ UNCHANGED loopVars

\* drawFrame(), in either branch: it returns, or throws std::runtime_error
\* (threw).  In the profiled branch the scope is left through the
\* destructors of its two objects either way.
LoopDrawFrame(threw) ==
    /\ loopPc = "drawFrame"
    /\ drawThrew' = threw
    /\ loopPc' = IF doProfile THEN "pushEventEnd"
                 ELSE IF threw THEN "unwound" ELSE "increment"
    /\ obsLoop' = Append(obsLoop, "drawFrame")
    /\ UNCHANGED << frameCounter, doProfile, progVars >>

\* ~ScopedZone, the later constructed object, destroyed first
LoopScopedZoneExit ==
    /\ loopPc = "pushEventEnd"
    /\ PushEventEnd(Orchestrator)
    /\ loopPc' = "endFrame"
    /\ obsLoop' = Append(obsLoop, "pushEventEnd")
    /\ UNCHANGED << frameCounter, doProfile, drawThrew >>

\* ~ScopedFrame; an exception of drawFrame then leaves mainLoop.
LoopScopedFrameExit ==
    /\ loopPc = "endFrame"
    /\ EndFrame
    /\ loopPc' = IF drawThrew THEN "unwound" ELSE "update"
    /\ obsLoop' = Append(obsLoop, "endFrame")
    /\ UNCHANGED << frameCounter, doProfile, drawThrew >>

\* if (doProfile) profilerUI.update();
LoopUpdate ==
    /\ loopPc = "update"
    /\ Update
    /\ loopPc' = "render"
    /\ obsLoop' = Append(obsLoop, "update")
    /\ UNCHANGED << frameCounter, doProfile, drawThrew >>

\* profilerUI.render();
LoopRender ==
    /\ loopPc = "render"
    /\ Render
    /\ loopPc' = "increment"
    /\ obsLoop' = Append(obsLoop, "render")
    /\ UNCHANGED << frameCounter, doProfile, drawThrew >>

\* frameCounter++
LoopIncrement ==
    /\ loopPc = "increment"
    /\ frameCounter' = frameCounter + 1
    /\ loopPc' = "test"
    /\ UNCHANGED << doProfile, drawThrew, obsLoop, progVars >>

\* ChronoProfiler::exportToJSON("profile_output.json") after the loop
LoopExport(isOpen) ==
    /\ loopPc = "export"
    /\ ExportToJSON(isOpen)
    /\ loopPc' = "done"
    /\ UNCHANGED << frameCounter, doProfile, drawThrew, obsLoop >>

\* VulkanRenderer::mainLoop, statement by statement, on the one thread that
\* runs it.
NextLoop ==
    \/ \E shouldClose \in BOOLEAN :
          LoopTest(shouldClose) /\ UNCHANGED progVars /\ ObsNone
          /\ UNCHANGED << bladeVars, uiVars, concVars >>
    \/ LoopScopedFrame /\ ObsNone /\ UNCHANGED << bladeVars, uiVars, concVars >>
    \/ LoopScopedZone /\ ObsNone /\ UNCHANGED << bladeVars, uiVars, concVars >>
    \/ LoopDrawing /\ ObsNone /\ UNCHANGED << bladeVars, uiVars, concVars >>
    \/ \E threw \in BOOLEAN :
          LoopDrawFrame(threw) /\ ObsNone /\ UNCHANGED << bladeVars, uiVars, concVars >>
    \/ LoopScopedZoneExit /\ ObsNone /\ UNCHANGED << bladeVars, uiVars, concVars >>
    \/ LoopScopedFrameExit /\ ObsNone /\ UNCHANGED << bladeVars, uiVars, concVars >>
    \/ LoopUpdate /\ ObsUpdate /\ UNCHANGED << bladeVars, concVars >>
    \/ LoopRender /\ ObsCall(renderCall) /\ UNCHANGED << obsCaptured, bladeVars, concVars >>
    \/ LoopIncrement /\ ObsNone /\ UNCHANGED << bladeVars, uiVars, concVars >>
    \/ \E isOpen \in BOOLEAN :
          LoopExport(isOpen) /\ ObsCall(exportToJSONCall(isOpen))
          /\ UNCHANGED << bladeVars, uiVars, concVars >>

SpecLoop == Init /\ [][NextLoop]_vars

\* ------------------------------------------- interleaved calls (SpecRace)
\* Calls of several threads, interleaved statement by statement.  pc[t] is
\* "idle" between calls and "exited" once thread t has ended.

\* A lock that is taken whether or not it is held.
lockAlwaysFree(mutex) == TRUE

\* Whether std::lock_guard's constructor can take the mutex.
lockFree(mutex) == mutex = {}

\* The thread whose log the endFrame of thread o is at.
bufferAt(o) == allThreadBuffers[cursor[o]]

\* Whether a thread other than t is between the copy and the clear of t's
\* log in endFrame.
merging(t) ==
    \E o \in Threads \ {t} :
        /\ pc[o] = "ef_clear"
        /\ bufferAt(o) = t

\* What an access with undefined behaviour (a data race on a log, a read
\* through a dangling pointer) can do: go wrong, or not.
undefinedOutcomes(isUndefined) == IF isUndefined THEN BOOLEAN ELSE {FALSE}

\* The faults so far, with one of the given kind when the access went wrong.
faultsWith(faults, kind, wrong) == IF wrong THEN faults \cup {kind} ELSE faults

\* beginFrame, first statement: frameStart is set before the lock is taken.
BfStart(t) ==
    /\ pc[t] = "idle"
    /\ frameStart' = now
    /\ pc' = [pc EXCEPT ![t] = "bf_lock"]
    /\ UNCHANGED << now, threadEvents, registered, allThreadBuffers, frameEvents,
                    threadNames, totalEventCount, mergeMutex, cursor, fault >>

\* beginFrame: std::lock_guard lock(mergeMutex)
BfLock(t) ==
    /\ pc[t] = "bf_lock"
    /\ lockFree(mergeMutex)
    /\ mergeMutex' = {t}
    /\ pc' = [pc EXCEPT ![t] = "bf_clear"]
    /\ UNCHANGED << progVars, cursor, fault >>

\* beginFrame: the locked section, and the release at the end of the scope.
BfClear(t) ==
    /\ pc[t] = "bf_clear"
    /\ frameEvents' = beginFrameEvents(frameEvents)
    /\ totalEventCount' = 0
    /\ mergeMutex' = mergeMutex \ {t}
    /\ pc' = [pc EXCEPT ![t] = "idle"]
    /\ UNCHANGED << now, frameStart, threadEvents, registered, allThreadBuffers,
                    threadNames, cursor, fault >>

\* endFrame is called, by the thread that drives the frames.
EfCall(t) ==
    /\ t = Orchestrator
    /\ pc[t] = "idle"
    /\ pc' = [pc EXCEPT ![t] = "ef_lock"]
    /\ UNCHANGED << progVars, mergeMutex, cursor, fault >>

\* endFrame: std::lock_guard lock(mergeMutex), and the start of the loop.
EfLock(t) ==
    /\ pc[t] = "ef_lock"
    /\ lockFree(mergeMutex)
    /\ mergeMutex' = {t}
    /\ cursor' = [cursor EXCEPT ![t] = 1]
    /\ pc' = [pc EXCEPT ![t] = "ef_copy"]
    /\ UNCHANGED << progVars, fault >>

\* endFrame: frameEvents.insert(frameEvents.end(), buffer->begin(),
\* buffer->end()) for the buffer the loop is at.  The buffer of a thread
\* that has exited is read through a dangling pointer (wrong).
EfCopy(t, wrong) ==
    /\ pc[t] = "ef_copy"
    /\ cursor[t] <= Len(allThreadBuffers)
    /\ wrong \in undefinedOutcomes(pc[bufferAt(t)] = "exited")
    /\ frameEvents' = mergeBuffers(frameEvents, << bufferAt(t) >>, threadEvents)
    /\ fault' = faultsWith(fault, "dangling", wrong)
    /\ pc' = [pc EXCEPT ![t] = "ef_clear"]
    /\ UNCHANGED << now, frameStart, threadEvents, registered, allThreadBuffers,
                    threadNames, totalEventCount, mergeMutex, cursor >>

\* An endFrame that clears every log of the registry after the first copy.
EfClearEvery(t) ==
    /\ pc[t] = "ef_clear"
    /\ threadEvents' = clearBuffers(allThreadBuffers, threadEvents)
    /\ cursor' = [cursor EXCEPT ![t] = @ + 1]
    /\ pc' = [pc EXCEPT ![t] = "ef_copy"]
    /\ UNCHANGED << now, frameStart, registered, allThreadBuffers, frameEvents,
                    threadNames, totalEventCount, mergeMutex, fault >>

\* endFrame: buffer->clear(), and the step of the loop.
EfClear(t) ==
    /\ pc[t] = "ef_clear"
    /\ threadEvents' = clearBuffers(<< bufferAt(t) >>, threadEvents)
    /\ cursor' = [cursor EXCEPT ![t] = @ + 1]
    /\ pc' = [pc EXCEPT ![t] = "ef_copy"]
    /\ UNCHANGED << now, frameStart, registered, allThreadBuffers, frameEvents,
                    threadNames, totalEventCount, mergeMutex, fault >>

\* endFrame: the end of the loop, and the release at the end of the scope.
EfUnlock(t) ==
    /\ pc[t] = "ef_copy"
    /\ cursor[t] > Len(allThreadBuffers)
    /\ mergeMutex' = mergeMutex \ {t}
    /\ pc' = [pc EXCEPT ![t] = "idle"]
    /\ UNCHANGED << progVars, cursor, fault >>

\* A pushEventStart that runs the initializer of registered on every call.
PsCallEveryTime(t) ==
    /\ pc[t] = "idle"
    /\ pc' = [pc EXCEPT ![t] = "ps_lock"]
    /\ UNCHANGED << progVars, mergeMutex, cursor, fault >>

\* pushEventStart by a thread whose thread_local registered is not yet
\* initialized: the initializer is entered.
PsCall(t) ==
    /\ pc[t] = "idle"
    /\ ~registered[t]
    /\ pc' = [pc EXCEPT ![t] = "ps_lock"]
    /\ UNCHANGED << progVars, mergeMutex, cursor, fault >>

\* The initializer of registered: std::lock_guard lock(mergeMutex)
PsLock(t) ==
    /\ pc[t] = "ps_lock"
    /\ lockFree(mergeMutex)
    /\ mergeMutex' = {t}
    /\ pc' = [pc EXCEPT ![t] = "ps_register"]
    /\ UNCHANGED << progVars, cursor, fault >>

\* The initializer of registered: allThreadBuffers.push_back(&threadEvents),
\* and the release at the end of the lambda.
PsRegister(t) ==
    /\ pc[t] = "ps_register"
    /\ allThreadBuffers' = registerBuffer(allThreadBuffers, registered[t], t)
    /\ registered' = [registered EXCEPT ![t] = TRUE]
    /\ mergeMutex' = mergeMutex \ {t}
    /\ pc' = [pc EXCEPT ![t] = "ps_push"]
    /\ UNCHANGED << now, frameStart, threadEvents, frameEvents, threadNames,
                    totalEventCount, cursor, fault >>

\* pushEventStart after the registration (of this call or of an earlier
\* one): the capacity test and the push_back, with no lock.  When another
\* thread's endFrame is between the copy and the clear of this log, the two
\* unsynchronized accesses are a data race (wrong).
PsPush(t, args, wrong) ==
    LET appended == pushEventStartAppends(threadEvents[t]) IN
    /\ \/ pc[t] = "idle" /\ registered[t]
       \/ pc[t] = "ps_push"
    /\ appended => liveEvents < MaxLive
    /\ wrong \in undefinedOutcomes(merging(t))
    /\ threadEvents' = [threadEvents EXCEPT
            ![t] = pushEventStartLog(threadEvents[t], args, ThreadId(t), now)]
    /\ totalEventCount' = IF appended THEN totalEventCount + 1 ELSE totalEventCount
    /\ fault' = faultsWith(fault, "race", wrong)
    /\ pc' = [pc EXCEPT ![t] = "idle"]
    /\ UNCHANGED << now, frameStart, registered, allThreadBuffers, frameEvents,
                    threadNames, mergeMutex, cursor >>

\* pushEventEnd: no lock; a data race (wrong) as for pushEventStart.
PeEnd(t, wrong) ==
    /\ pc[t] = "idle"
    /\ wrong \in undefinedOutcomes(merging(t) /\ threadEvents[t] # << >>)
    /\ PushEventEnd(t)
    /\ fault' = faultsWith(fault, "race", wrong)
    /\ UNCHANGED << pc, mergeMutex, cursor >>

\* A thread other than the one that runs the program ends: its
\* thread_local threadEvents is destroyed, the registry keeps the pointer.
ThreadExit(t) ==
    /\ t # Orchestrator
    /\ pc[t] = "idle"
    /\ pc' = [pc EXCEPT ![t] = "exited"]
    /\ UNCHANGED << progVars, mergeMutex, cursor, fault >>

\* How many of the events are of thread t.
countOf(events, t) ==
    Cardinality({i \in 1..Len(events) : events[i].threadId = ThreadId(t)})

\* History of a pushEventStart of thread t.
ObsPushed(t) ==
    /\ sumOver(Threads, obsPushed) < MaxPushes
    /\ obsPushed' = [obsPushed EXCEPT ![t] =
                        IF pushEventStartAppends(threadEvents[t]) THEN @ + 1 ELSE @]
    /\ UNCHANGED obsCleared

\* History of the clear of beginFrame.
ObsCleared ==
    /\ obsCleared' = [t \in Threads |-> obsCleared[t] + countOf(frameEvents, t)]
    /\ UNCHANGED obsPushed

\* A step of interleaved profiler calls: nothing else is called.
RaceOnly ==
    /\ ObsNone
    /\ UNCHANGED << bladeVars, uiVars, loopVars, threadNamesMutex, uiMutex, obsStarted >>

ObsRaceNone == UNCHANGED << obsPushed, obsCleared >>

\* beginFrame, pushEventStart and pushEventEnd called by every thread and
\* endFrame by the thread that drives the frames, at any time, and threads
\* ending.
NextRace ==
    \/ \E t \in Threads : BfStart(t) /\ ObsRaceNone /\ RaceOnly
    \/ \E t \in Threads : BfLock(t) /\ ObsRaceNone /\ RaceOnly
    \/ \E t \in Threads : BfClear(t) /\ ObsCleared /\ RaceOnly
    \/ \E t \in Threads : EfCall(t) /\ ObsRaceNone /\ RaceOnly
    \/ \E t \in Threads : EfLock(t) /\ ObsRaceNone /\ RaceOnly
    \/ \E t \in Threads, wrong \in BOOLEAN : EfCopy(t, wrong) /\ ObsRaceNone /\ RaceOnly
    \/ \E t \in Threads : EfClear(t) /\ ObsRaceNone /\ RaceOnly
    \/ \E t \in Threads : EfUnlock(t) /\ ObsRaceNone /\ RaceOnly
    \/ \E t \in Threads : PsCall(t) /\ ObsRaceNone /\ RaceOnly
    \/ \E t \in Threads : PsLock(t) /\ ObsRaceNone /\ RaceOnly
    \/ \E t \in Threads : PsRegister(t) /\ ObsRaceNone /\ RaceOnly
    \/ \E t \in Threads, wrong \in BOOLEAN :
          PsPush(t, ZoneOf(t), wrong) /\ ObsPushed(t) /\ RaceOnly
    \/ \E t \in Threads, wrong \in BOOLEAN : PeEnd(t, wrong) /\ ObsRaceNone /\ RaceOnly
    \/ \E t \in Threads : ThreadExit(t) /\ ObsRaceNone /\ RaceOnly

SpecRace == Init /\ [][NextRace]_vars

\* ------------------------------------- synchronized frames (SpecSync)
\* Whether the thread that drives the frames is inside endFrame.
inEndFrame == pc[Orchestrator] \in {"ef_lock", "ef_copy", "ef_clear"}

\* Whether every other thread is between calls.
producersDone == \A t \in Threads \ {Orchestrator} : pc[t] = "idle"

\* The interleaved calls under the synchronization the callers are asked
\* for: the frame thread calls endFrame only once every producer has
\* completed its calls, and no thread records until endFrame has returned.
\* The threads record in any interleaving, also while beginFrame runs.
NextSync ==
    \/ BfStart(Orchestrator) /\ ObsRaceNone /\ RaceOnly
    \/ BfLock(Orchestrator) /\ ObsRaceNone /\ RaceOnly
    \/ BfClear(Orchestrator) /\ ObsCleared /\ RaceOnly
    \/ producersDone /\ EfCall(Orchestrator) /\ ObsRaceNone /\ RaceOnly
    \/ EfLock(Orchestrator) /\ ObsRaceNone /\ RaceOnly
    \/ \E wrong \in BOOLEAN : EfCopy(Orchestrator, wrong) /\ ObsRaceNone /\ RaceOnly
    \/ EfClear(Orchestrator) /\ ObsRaceNone /\ RaceOnly
    \/ EfUnlock(Orchestrator) /\ ObsRaceNone /\ RaceOnly
    \/ \E t \in Threads : ~inEndFrame /\ PsCall(t) /\ ObsRaceNone /\ RaceOnly
    \/ \E t \in Threads : ~inEndFrame /\ PsLock(t) /\ ObsRaceNone /\ RaceOnly
    \/ \E t \in Threads : ~inEndFrame /\ PsRegister(t) /\ ObsRaceNone /\ RaceOnly
    \/ \E t \in Threads, wrong \in BOOLEAN :
          ~inEndFrame /\ PsPush(t, ZoneOf(t), wrong) /\ ObsPushed(t) /\ RaceOnly
    \/ \E t \in Threads, wrong \in BOOLEAN :
          ~inEndFrame /\ PeEnd(t, wrong) /\ ObsRaceNone /\ RaceOnly

SpecSync == Init /\ [][NextSync]_vars

\* ------------------------------------------- every lock (SpecLocks)
\* The calls that take threadNamesMutex or uiMutex, statement by statement,
\* next to those that take mergeMutex.

\* Whether a thread other than t is inside a locked section that writes the
\* merged events.  exportToJSON and update read them with no lock: a data
\* race, like the one on a thread log.
mergedWritten(t) ==
    \E o \in Threads \ {t} : pc[o] \in {"bf_clear", "ef_copy", "ef_clear"}

\* The variables a step of the naming, export and UI calls may leave alone.
profilerData == << now, frameStart, threadEvents, registered, allThreadBuffers,
                  frameEvents, totalEventCount >>
uiData == << maxHistory, frameHistory, aggregatedStats, totalFrames >>

\* setThreadName is called: the id is computed.
SnCall(t) ==
    /\ pc[t] = "idle"
    /\ pc' = [pc EXCEPT ![t] = "sn_lock"]
    /\ UNCHANGED << profilerData, threadNames, uiData, mergeMutex, threadNamesMutex,
                    uiMutex, cursor, fault >>

\* setThreadName: std::lock_guard lock(threadNamesMutex)
SnLock(t) ==
    /\ pc[t] = "sn_lock"
    /\ lockFree(threadNamesMutex)
    /\ threadNamesMutex' = {t}
    /\ pc' = [pc EXCEPT ![t] = "sn_set"]
    /\ UNCHANGED << profilerData, threadNames, uiData, mergeMutex, uiMutex,
                    cursor, fault >>

\* A setThreadName that returns with threadNamesMutex still held.
SnSetHoldingLock(t, name) ==
    /\ pc[t] = "sn_set"
    /\ SetThreadName(t, name)
    /\ pc' = [pc EXCEPT ![t] = "idle"]
    /\ UNCHANGED << uiData, mergeMutex, threadNamesMutex, uiMutex, cursor, fault >>

\* setThreadName: threadNames[id] = name, and the release.
SnSet(t, name) ==
    /\ pc[t] = "sn_set"
    /\ SetThreadName(t, name)
    /\ threadNamesMutex' = threadNamesMutex \ {t}
    /\ pc' = [pc EXCEPT ![t] = "idle"]
    /\ UNCHANGED << uiData, mergeMutex, uiMutex, cursor, fault >>

\* getThreadName is called.
GnCall(t) ==
    /\ pc[t] = "idle"
    /\ pc' = [pc EXCEPT ![t] = "gn_lock"]
    /\ UNCHANGED << profilerData, threadNames, uiData, mergeMutex, threadNamesMutex,
                    uiMutex, cursor, fault >>

\* getThreadName: std::lock_guard lock(threadNamesMutex)
GnLock(t) ==
    /\ pc[t] = "gn_lock"
    /\ lockFree(threadNamesMutex)
    /\ threadNamesMutex' = {t}
    /\ pc' = [pc EXCEPT ![t] = "gn_find"]
    /\ UNCHANGED << profilerData, threadNames, uiData, mergeMutex, uiMutex,
                    cursor, fault >>

\* getThreadName: the lookup, the return and the release.
GnFind(t, id) ==
    /\ pc[t] = "gn_find"
    /\ GetThreadName(id)
    /\ threadNamesMutex' = threadNamesMutex \ {t}
    /\ pc' = [pc EXCEPT ![t] = "idle"]
    /\ UNCHANGED << uiData, mergeMutex, uiMutex, cursor, fault >>

\* exportToJSON is called: the loop over the merged events starts, with no
\* lock.
ExCall(t) ==
    /\ pc[t] = "idle"
    /\ cursor' = [cursor EXCEPT ![t] = 1]
    /\ pc' = [pc EXCEPT ![t] = "ex_loop"]
    /\ UNCHANGED << profilerData, threadNames, uiData, mergeMutex, threadNamesMutex,
                    uiMutex, fault >>

\* exportToJSON: the next event of the loop is read (a data race, wrong,
\* when the merged events are being written) and getThreadName is called
\* for it.
ExNext(t, wrong) ==
    /\ pc[t] = "ex_loop"
    /\ cursor[t] <= Len(frameEvents)
    /\ wrong \in undefinedOutcomes(mergedWritten(t))
    /\ fault' = faultsWith(fault, "race", wrong)
    /\ pc' = [pc EXCEPT ![t] = "ex_name_lock"]
    /\ UNCHANGED << profilerData, threadNames, uiData, mergeMutex, threadNamesMutex,
                    uiMutex, cursor >>

\* exportToJSON, in getThreadName: std::lock_guard lock(threadNamesMutex)
ExNameLock(t) ==
    /\ pc[t] = "ex_name_lock"
    /\ lockFree(threadNamesMutex)
    /\ threadNamesMutex' = {t}
    /\ pc' = [pc EXCEPT ![t] = "ex_name"]
    /\ UNCHANGED << profilerData, threadNames, uiData, mergeMutex, uiMutex,
                    cursor, fault >>

\* exportToJSON: getThreadName returns, the record is added, the loop
\* steps.
ExName(t) ==
    /\ pc[t] = "ex_name"
    /\ threadNamesMutex' = threadNamesMutex \ {t}
    /\ cursor' = [cursor EXCEPT ![t] = @ + 1]
    /\ pc' = [pc EXCEPT ![t] = "ex_loop"]
    /\ UNCHANGED << profilerData, threadNames, uiData, mergeMutex, uiMutex, fault >>

\* exportToJSON: the end of the loop and the write of the file.
ExWrite(t, isOpen) ==
    /\ pc[t] = "ex_loop"
    /\ cursor[t] > Len(frameEvents)
    /\ ExportToJSON(isOpen)
    /\ pc' = [pc EXCEPT ![t] = "idle"]
    /\ UNCHANGED << uiData, mergeMutex, threadNamesMutex, uiMutex, cursor, fault >>

\* ProfilerUI::update is called.
UpCall(t) ==
    /\ pc[t] = "idle"
    /\ pc' = [pc EXCEPT ![t] = "up_lock"]
    /\ UNCHANGED << profilerData, threadNames, uiData, mergeMutex, threadNamesMutex,
                    uiMutex, cursor, fault >>

\* update: std::lock_guard lock(uiMutex)
UpLock(t) ==
    /\ pc[t] = "up_lock"
    /\ lockFree(uiMutex)
    /\ uiMutex' = {t}
    /\ pc' = [pc EXCEPT ![t] = "up_body"]
    /\ UNCHANGED << profilerData, threadNames, uiData, mergeMutex, threadNamesMutex,
                    cursor, fault >>

\* update: the merged events are read through getEvents with no merge lock
\* (a data race, wrong, when they are being written), pushed to the
\* history and aggregated; then the release.
UpBody(t, wrong) ==
    /\ pc[t] = "up_body"
    /\ wrong \in undefinedOutcomes(mergedWritten(t))
    /\ Update
    /\ fault' = faultsWith(fault, "race", wrong)
    /\ uiMutex' = uiMutex \ {t}
    /\ pc' = [pc EXCEPT ![t] = "idle"]
    /\ UNCHANGED << mergeMutex, threadNamesMutex, cursor >>

\* ProfilerUI::render is called.
RnCall(t) ==
    /\ pc[t] = "idle"
    /\ pc' = [pc EXCEPT ![t] = "rn_lock"]
    /\ UNCHANGED << profilerData, threadNames, uiData, mergeMutex, threadNamesMutex,
                    uiMutex, cursor, fault >>

\* render: std::lock_guard lock(uiMutex), and the frame header.
RnLock(t) ==
    /\ pc[t] = "rn_lock"
    /\ lockFree(uiMutex)
    /\ uiMutex' = {t}
    /\ cursor' = [cursor EXCEPT ![t] = 1]
    /\ pc' = [pc EXCEPT ![t] = "rn_frame"]
    /\ UNCHANGED << profilerData, threadNames, uiData, mergeMutex, threadNamesMutex,
                    fault >>

\* The events renderFrame loops over: frameHistory.back(), or none.
renderedEvents ==
    IF frameHistory = << >> THEN << >> ELSE frameHistory[Len(frameHistory)]

\* renderFrame: the bar of the next event, and the call of getThreadName
\* for it, with uiMutex held.
RnNext(t) ==
    /\ pc[t] = "rn_frame"
    /\ cursor[t] <= Len(renderedEvents)
    /\ pc' = [pc EXCEPT ![t] = "rn_name_lock"]
    /\ UNCHANGED << profilerData, threadNames, uiData, mergeMutex, threadNamesMutex,
                    uiMutex, cursor, fault >>

\* renderFrame, in getThreadName: std::lock_guard lock(threadNamesMutex)
RnNameLock(t) ==
    /\ pc[t] = "rn_name_lock"
    /\ lockFree(threadNamesMutex)
    /\ threadNamesMutex' = {t}
    /\ pc' = [pc EXCEPT ![t] = "rn_name"]
    /\ UNCHANGED << profilerData, threadNames, uiData, mergeMutex, uiMutex,
                    cursor, fault >>

\* renderFrame: getThreadName returns, the line is printed, the loop steps.
RnName(t) ==
    /\ pc[t] = "rn_name"
    /\ threadNamesMutex' = threadNamesMutex \ {t}
    /\ cursor' = [cursor EXCEPT ![t] = @ + 1]
    /\ pc' = [pc EXCEPT ![t] = "rn_frame"]
    /\ UNCHANGED << profilerData, threadNames, uiData, mergeMutex, uiMutex, fault >>

\* render: the end of renderFrame, renderAggregatedStats, and the release.
RnStats(t) ==
    /\ pc[t] = "rn_frame"
    /\ cursor[t] > Len(renderedEvents)
    /\ Render
    /\ uiMutex' = uiMutex \ {t}
    /\ pc' = [pc EXCEPT ![t] = "idle"]
    /\ UNCHANGED << mergeMutex, threadNamesMutex, cursor, fault >>

\* The threads inside a pushEventStart, and those inside an update.
pushing == {t \in Threads : pc[t] \in {"ps_lock", "ps_register", "ps_push"}}
updating == {t \in Threads : pc[t] \in {"up_lock", "up_body"}}

\* A call is started only with room left, within the bounds on the events
\* held and on the frames read, for every call already under way.
pushRoom == liveEvents + Cardinality(pushing) < MaxLive
updateRoom == totalFrames + Cardinality(updating) < MaxUpdates

\* History of a call started by thread t, up to MaxOps calls in all.
ObsStarted(t) ==
    /\ obsStarted < MaxOps
    /\ obsStarted' = obsStarted + 1
    /\ ObsNone /\ ObsRaceNone
    /\ UNCHANGED << bladeVars, loopVars, obsCaptured >>

\* History of a step inside a call.
ObsStep ==
    /\ ObsNone /\ ObsRaceNone
    /\ UNCHANGED << bladeVars, loopVars, obsCaptured, obsStarted >>

\* A step of a call of the profiler that the ProfilerUI has no part in.
NoUi == UNCHANGED << uiData, threadNamesMutex, uiMutex >>

\* The step thread t takes to start a call.
StartCall(t) ==
    \/ BfStart(t) /\ NoUi /\ ObsStarted(t)
    \/ EfCall(t) /\ NoUi /\ ObsStarted(t)
    \/ pushRoom /\ PsCall(t) /\ NoUi /\ ObsStarted(t)
    \/ \E wrong \in BOOLEAN :
          /\ pc[t] = "idle" /\ pushRoom
          /\ PsPush(t, ZoneOf(t), wrong) /\ NoUi /\ ObsStarted(t)
    \/ \E wrong \in BOOLEAN : PeEnd(t, wrong) /\ NoUi /\ ObsStarted(t)
    \/ SnCall(t) /\ ObsStarted(t)
    \/ GnCall(t) /\ ObsStarted(t)
    \/ ExCall(t) /\ ObsStarted(t)
    \/ updateRoom /\ UpCall(t) /\ ObsStarted(t)
    \/ RnCall(t) /\ ObsStarted(t)

\* A step of thread t that takes a lock.
TakeLock(t) ==
    \/ BfLock(t) /\ NoUi /\ ObsStep
    \/ EfLock(t) /\ NoUi /\ ObsStep
    \/ PsLock(t) /\ NoUi /\ ObsStep
    \/ SnLock(t) /\ ObsStep
    \/ GnLock(t) /\ ObsStep
    \/ ExNameLock(t) /\ ObsStep
    \/ UpLock(t) /\ ObsStep
    \/ RnLock(t) /\ ObsStep
    \/ RnNameLock(t) /\ ObsStep

\* Any other step of thread t inside a call.
RunCall(t) ==
    \/ BfClear(t) /\ NoUi /\ ObsStep
    \/ \E wrong \in BOOLEAN : EfCopy(t, wrong) /\ NoUi /\ ObsStep
    \/ EfClear(t) /\ NoUi /\ ObsStep
    \/ EfUnlock(t) /\ NoUi /\ ObsStep
    \/ PsRegister(t) /\ NoUi /\ ObsStep
    \/ \E wrong \in BOOLEAN :
          pc[t] = "ps_push" /\ PsPush(t, ZoneOf(t), wrong) /\ NoUi /\ ObsStep
    \/ \E name \in ThreadNameSet : SnSet(t, name) /\ ObsStep
    \/ \E id \in QueryIds : GnFind(t, id) /\ ObsStep
    \/ \E wrong \in BOOLEAN : ExNext(t, wrong) /\ ObsStep
    \/ ExName(t) /\ ObsStep
    \/ \E isOpen \in BOOLEAN : ExWrite(t, isOpen) /\ ObsStep
    \/ \E wrong \in BOOLEAN : UpBody(t, wrong) /\ ObsStep
    \/ RnNext(t) /\ ObsStep
    \/ RnName(t) /\ ObsStep
    \/ RnStats(t) /\ ObsStep

\* Every call of the profiler and of the ProfilerUI, from every thread, in
\* any interleaving.
NextLocks == \E t \in Threads : StartCall(t) \/ TakeLock(t) \/ RunCall(t)

\* The scheduling is fair: a thread inside a call keeps running (weak
\* fairness of its steps), and a thread waiting for a lock that is free
\* again and again gets it (strong fairness of its lock steps).  Nothing
\* obliges a thread to start a call.
SpecLocks ==
    /\ Init /\ [][NextLocks]_vars
    /\ \A t \in Threads : WF_vars(RunCall(t)) /\ SF_vars(TakeLock(t))

\* ---- C21
\* C21 (registration): a thread's log is in the registry from that thread's
\* first pushEventStart on, also when the call is made outside a frame or
\* drops its event; the registry never holds two entries for one thread;
\* and no call removes or reorders an entry: the registry only grows at its
\* end, by the calling thread's entry, on that thread's first pushEventStart.
C21_RegistrationOnceAndKept ==
    /\ [](/\ \A i, j \in 1..Len(allThreadBuffers) :
               allThreadBuffers[i] = allThreadBuffers[j] => i = j
          /\ \A t \in Threads : registered[t] <=> inRegistry(allThreadBuffers, t))
    /\ [][ /\ Len(allThreadBuffers') >= Len(allThreadBuffers)
           /\ SubSeq(allThreadBuffers', 1, Len(allThreadBuffers)) = allThreadBuffers
           /\ \A t \in Threads :
                 ( now' = now /\ lastCall'.op = "pushEventStart" /\ lastCall'.thread = t )
                 => /\ inRegistry(allThreadBuffers', t)
                    /\ allThreadBuffers' =
                         IF inRegistry(allThreadBuffers, t) THEN allThreadBuffers
                         ELSE Append(allThreadBuffers, t)
           /\ ( now' = now /\ lastCall'.op # "pushEventStart" )
                 => allThreadBuffers' = allThreadBuffers
         ]_vars

\* A thread registered by calls made before the frame, whose pushEventStart
\* inside the frame was dropped on its full log: still one entry.
C21_Witness ==
    /\ obsPhase = "Accumulating"
    /\ lastCall.op = "pushEventStart"
    /\ obsStale[lastCall.thread] = kMaxEventsPerThread
    /\ Len(threadEvents[lastCall.thread]) = kMaxEventsPerThread
    /\ Len(obsTrace[lastCall.thread]) >= 1
    /\ allThreadBuffers = << lastCall.thread >>

\* ---- C22
\* Whether thread t is between calls, registered, while another thread
\* holds the merge lock.
idleUnderLock(t) ==
    /\ pc[t] = "idle"
    /\ registered[t]
    /\ mergeMutex # {} /\ mergeMutex # {t}

\* C22 (lock-free hot path): a thread waits for or holds the merge lock
\* inside pushEventStart only while it is not yet registered, and it stays
\* registered, so only its first pushEventStart takes the lock; a later
\* pushEventStart and every pushEventEnd leave the lock as it is, and they
\* can run to completion while another thread holds the lock inside
\* beginFrame or endFrame (up to the bounds on the events held).
C22_LockFreeHotPath ==
    /\ [](\A t \in Threads :
            /\ pc[t] \in {"ps_lock", "ps_register"} => ~registered[t]
            /\ ( idleUnderLock(t) /\ (pushEventStartAppends(threadEvents[t])
                                        => liveEvents < MaxLive) )
                  => ENABLED PsPush(t, ZoneOf(t), FALSE)
            /\ ( idleUnderLock(t)
                  /\ \A i \in 1..Len(threadEvents[t]) :
                        pushEventEndLog(threadEvents[t], now, frameStart)[i].startMs
                          >= -MaxDrift )
                  => ENABLED PeEnd(t, FALSE))
    /\ [][ \A t \in Threads :
             /\ registered[t] => registered'[t]
             /\ ( pc[t] = "idle" /\ registered[t] /\ threadEvents'[t] # threadEvents[t]
                  /\ pc'[t] = "idle" /\ Len(threadEvents'[t]) >= Len(threadEvents[t]) )
                  => mergeMutex' = mergeMutex /\ pc' = pc
         ]_vars

\* A registered thread's log that grew while the thread driving the frames
\* holds the merge lock in endFrame, between the copy and the clear of
\* that very log: the copy found the log empty.
C22_Witness ==
    \E t \in Threads \ {Orchestrator} :
        /\ pc[Orchestrator] = "ef_clear"
        /\ bufferAt(Orchestrator) = t
        /\ mergeMutex = {Orchestrator}
        /\ pc[t] = "idle"
        /\ countOf(frameEvents, t) = 0
        /\ obsCleared[t] = 0
        /\ Len(threadEvents[t]) = 1
        /\ threadEvents[t][1].durationMs >= 0

\* ---- C23
\* C23 (exactly once): when endFrame is called only after every producer
\* has completed its calls and nobody records until it returns, then,
\* however the threads interleaved their recording, at the return of
\* endFrame every registered log is empty and, per thread, the events
\* pushEventStart appended are all in the merged events, once each, apart
\* from those an earlier beginFrame cleared out of the merged events; and no
\* access to a log is a data race.
C23_MergedExactlyOnce ==
    /\ []("race" \notin fault)
    /\ [][ ( pc[Orchestrator] = "ef_copy" /\ pc'[Orchestrator] = "idle" )
           => /\ \A t \in Threads :
                    /\ registered[t] => threadEvents'[t] = << >>
                    /\ countOf(frameEvents', t) + obsCleared'[t] = obsPushed'[t]
              /\ Len(frameEvents') = sumOver(Threads, [t \in Threads |->
                                                        countOf(frameEvents', t)])
         ]_vars

\* After endFrame: both threads have recorded, one zone each, the second
\* thread's zone finalized, and both events are merged.
C23_Witness ==
    /\ \A t \in Threads : pc[t] = "idle" /\ threadEvents[t] = << >>
    /\ mergeMutex = {}
    /\ Len(frameEvents) = Cardinality(Threads)
    /\ \A t \in Threads : countOf(frameEvents, t) = 1 /\ obsPushed[t] = 1
    /\ \E i \in 1..Len(frameEvents) : frameEvents[i].durationMs >= 0

\* ---- C24
\* C24 (race on a thread log): when a registered thread calls
\* pushEventStart or pushEventEnd while endFrame is copying and clearing
\* that thread's log, events are lost or merged unfinalized, and that is
\* the only effect: the profiler never goes wrong.
C24_RaceOnlyLosesEvents == "race" \notin fault

\* ---- C25
\* Whether thread t is inside a section guarded by the merge lock.
inLocked(t) == pc[t] \in {"bf_clear", "ef_copy", "ef_clear", "ps_register"}

\* C25 (mutual exclusion): at most one thread is inside the locked section
\* of beginFrame, of endFrame or of the first-use registration, and it is
\* the holder of the merge lock; while endFrame traverses the registry no
\* step appends to the registry, and none removes an event from the merged
\* events.
C25_MergeLockExcludes ==
    /\ [](/\ Cardinality({t \in Threads : inLocked(t)}) <= 1
          /\ mergeMutex = {t \in Threads : inLocked(t)})
    /\ [][ ( \E o \in Threads : pc[o] \in {"ef_copy", "ef_clear"} )
           => /\ allThreadBuffers' = allThreadBuffers
              /\ Len(frameEvents') >= Len(frameEvents)
              /\ SubSeq(frameEvents', 1, Len(frameEvents)) = frameEvents
         ]_vars

\* endFrame in its loop, with merged events, while one thread waits for the
\* lock in beginFrame or in its registration.
C25_Witness ==
    /\ pc[Orchestrator] = "ef_clear"
    /\ frameEvents # << >>
    /\ \E t \in Threads \ {Orchestrator} : pc[t] \in {"bf_lock", "ps_lock"}

\* ---- C28
\* C28 (registry entries stay valid): whenever endFrame is at an entry of
\* the registry, the thread whose log the entry points to has not exited.
C28_RegistryLogsExist ==
    /\ \A o \in Threads :
          ( pc[o] = "ef_clear"
            \/ ( pc[o] = "ef_copy" /\ cursor[o] <= Len(allThreadBuffers) ) )
          => pc[bufferAt(o)] # "exited"
    /\ "dangling" \notin fault

\* ---- C26
\* Whether the merged events hold an unfinalized event of thread t: a zone
\* of t that was still open when endFrame merged t's log.
mergedOpen(t) ==
    \E i \in 1..Len(frameEvents) :
        frameEvents[i].threadId = ThreadId(t) /\ frameEvents[i].durationMs < 0

\* C26 (open zone at endFrame): after endFrame every registered thread's log
\* is empty; while the merged events hold an unfinalized event of a thread,
\* a pushEventEnd by that thread that closes no zone opened since (its log
\* holds no unfinalized event) changes neither the merged events nor any
\* event of any log; and beginFrame leaves nothing in the merged events.
C26_OpenZoneNeverFinalized ==
    [][ /\ ( now' = now /\ lastCall'.op = "endFrame" )
           => \A t \in Threads : registered[t] => threadEvents'[t] = << >>
        /\ \A t \in Threads :
              ( /\ now' = now
                /\ lastCall'.op = "pushEventEnd"
                /\ lastCall'.thread = t
                /\ mergedOpen(t)
                /\ \A i \in 1..Len(threadEvents[t]) :
                      threadEvents[t][i].durationMs >= 0 )
              => frameEvents' = frameEvents /\ threadEvents' = threadEvents
        /\ ( now' = now /\ lastCall'.op = "beginFrame" ) => frameEvents' = << >>
      ]_vars

\* ---- C27
\* The calls of a profiled iteration of mainLoop, in order.
profiledCalls == << "beginFrame", "pushEventStart", "drawFrame", "pushEventEnd",
                   "endFrame", "update", "render" >>

\* Whether the calls made so far in the iteration are the first calls of
\* a profiled iteration.
inProfiledOrder(calls) ==
    /\ Len(calls) <= Len(profiledCalls)
    /\ calls = SubSeq(profiledCalls, 1, Len(calls))

\* C27 as stated: every profiled iteration of mainLoop (frameCounter a
\* multiple of 10) makes the calls beginFrame, pushEventStart, drawFrame,
\* pushEventEnd, endFrame, update, render, in that order, update reads a
\* frame whose zone is finalized, and an iteration that is not profiled
\* calls drawFrame alone.
C27_LoopCallOrder ==
    /\ loopPc \in {"increment", "unwound"}
          => obsLoop = IF frameCounter % profileEveryNFrames = 0
                         THEN profiledCalls ELSE << "drawFrame" >>
    /\ \A i \in 1..Len(obsCaptured) :
          /\ Len(obsCaptured[i]) = 1
          /\ obsCaptured[i][1].name = drawFrameZone.name
          /\ obsCaptured[i][1].durationMs >= 0

\* C27 (amended): in a profiled iteration of mainLoop (frameCounter a
\* multiple of 10) the calls are made in the order beginFrame,
\* pushEventStart, drawFrame, pushEventEnd, endFrame, update, render; all
\* seven are made when drawFrame returns, and when drawFrame throws the
\* iteration ends after endFrame (pushEventEnd still before endFrame, no
\* update, no render).  update always reads a frame whose one zone is
\* finalized.  An iteration that is not profiled calls drawFrame alone.
C27_LoopCallOrderAmended ==
    /\ loopPc \notin {"test", "export", "done"}
          => IF frameCounter % profileEveryNFrames = 0
               THEN inProfiledOrder(obsLoop)
               ELSE obsLoop \in {<< >>, << "drawFrame" >>}
    /\ loopPc = "increment"
          => obsLoop = IF frameCounter % profileEveryNFrames = 0
                         THEN profiledCalls ELSE << "drawFrame" >>
    /\ loopPc = "unwound"
          => /\ drawThrew
             /\ obsLoop = IF frameCounter % profileEveryNFrames = 0
                            THEN SubSeq(profiledCalls, 1, 5) ELSE << "drawFrame" >>
    /\ \A i \in 1..Len(obsCaptured) :
          /\ Len(obsCaptured[i]) = 1
          /\ obsCaptured[i][1].name = drawFrameZone.name
          /\ obsCaptured[i][1].durationMs >= 0

\* The second profiled iteration, complete, after nine iterations that
\* were not profiled.
C27_Witness ==
    /\ loopPc = "increment"
    /\ frameCounter = profileEveryNFrames
    /\ obsLoop = profiledCalls
    /\ Len(obsCaptured) = 2
    /\ totalFrames = 2

\* ---- C29
\* The statements at which a thread waits for the merge lock, and for the
\* thread-name lock.
mergeWait == {"bf_lock", "ef_lock", "ps_lock"}
namesWait == {"sn_lock", "gn_lock", "ex_name_lock", "rn_name_lock"}

\* C29 (deadlock freedom): whatever the interleaving of beginFrame,
\* endFrame, pushEventStart, pushEventEnd, setThreadName, getThreadName,
\* exportToJSON, update and render, no thread waits for the merge lock
\* while it holds the thread-name lock, or for the thread-name lock while
\* it holds the merge lock; a thread between calls holds no lock; and under
\* fair scheduling every call that is started returns.  (An access that
\* goes wrong by undefined behaviour is recorded in fault and the call goes
\* on: what a build does after it is not part of this statement.)
C29_DeadlockFree ==
    /\ [](\A t \in Threads :
            /\ pc[t] \in mergeWait => t \notin threadNamesMutex
            /\ pc[t] \in namesWait => t \notin mergeMutex
            /\ pc[t] = "idle" => t \notin (mergeMutex \cup threadNamesMutex \cup uiMutex))
    /\ \A t \in Threads : (pc[t] # "idle") ~> (pc[t] = "idle")

\* render holds the UI lock and waits, inside getThreadName, for the
\* thread-name lock that another thread holds.
C29_Witness ==
    \E t \in Threads, u \in Threads :
        /\ pc[t] = "rn_name_lock"
        /\ uiMutex = {t}
        /\ threadNamesMutex = {u}
        /\ u # t

\* ---- C30
\* C30 (ChronoBlade): after any sequence of start and end calls every
\* section of the results map has a call count of at least 1 and a start
\* time in the times map, so every average report() and exportCSV() compute
\* divides by a count of at least 1; and because end() leaves the start time
\* in place, an end(section) that follows an earlier end(section) with no
\* start(section) between them is counted as one more call, measured from
\* the same start time.
C30_BladeResultsCounted ==
    /\ [](/\ \A section \in DOMAIN results :
               results[section].second >= 1 /\ section \in DOMAIN times
          /\ \A row \in bladeRows(results) : row.avgOver >= 1
          /\ \A row \in obsBladeCall.rows : row.avgOver >= 1)
    /\ [][ \A section \in Sections :
             ( /\ now' = now
               /\ obsBladeCall'.op = "end"
               /\ obsBladeCall'.section = section
               /\ obsBlade[section].n > 0
               /\ obsBlade[section].closed )
             => /\ times' = times
                /\ section \in DOMAIN results'
                /\ results'[section].second = bladeResultAt(results, section).second + 1
                /\ results'[section].first =
                      bladeResultAt(results, section).first + (now - times[section])
         ]_vars

\* A section ended twice after one start, at a later tick the second time,
\* and then reported: two calls, both measured from the one start.
C30_Witness ==
    /\ obsBladeCall.op = "report"
    /\ \E section \in DOMAIN results :
          /\ obsBlade[section].n = 1
          /\ results[section].second = 2
          /\ results[section].first > 0
          /\ times[section] = obsBlade[section].latest
          /\ \E row \in obsBladeCall.rows : row.section = section /\ row.avgOver = 2

====
